---------------------------- MODULE Spec2Model ----------------------------
(***************************************************************************)
(* A model of ShazamAPI: the signature codec (signature_format.py) and the *)
(* signature generator's driver (algorithm.py).                            *)
(*                                                                         *)
(* TLC's integers are 32-bit signed, so an unsigned 32-bit word that can   *)
(* exceed 2^31-1 (magic1, magic2, the CRC-32) is kept as its four          *)
(* little-endian bytes, which is also how it sits in the payload.          *)
(***************************************************************************)
EXTENDS Integers, Sequences, FiniteSets, TLC

VARIABLES
    msg,        \* the DecodedMessage handed to encode_to_binary
    enc,        \* what encode_to_binary(msg) did: bytes returned or error raised
    data,       \* the payload handed to decode_from_binary, and where it came from
    dec,        \* what decode_from_binary(data) did: message returned or error raised
    input_pending_processing,   \* SignatureGenerator: every sample fed so far
    samples_processed,          \* SignatureGenerator: the cursor into input_pending_processing
    ring_buffer_of_samples,     \* SignatureGenerator: RingBuffer of 2048 samples
    fft_outputs,                \* SignatureGenerator: RingBuffer of 256 power spectra
    spread_ffts_output,         \* SignatureGenerator: RingBuffer of 256 spread spectra
    MAX_TIME_SECONDS,           \* SignatureGenerator: the time budget, in milliseconds
    MAX_PEAKS,                  \* SignatureGenerator: the peak budget
    signatures,                 \* the DecodedMessage objects the generator has created, by identity
    next_signature,             \* SignatureGenerator: identity of the signature being filled
    pc,                         \* where the caller of the generator stands: "idle" or "loop"
    call,                       \* the running call of get_next_signature: cursor at entry, strides, samples passed
    outcome,                    \* what the last call of __next__ did
    returned,                   \* one record per signature returned, in order
    feeds                       \* how many times feed_input has been called

codecVars == <<msg, enc, data, dec>>
genVars == <<input_pending_processing, samples_processed, ring_buffer_of_samples, fft_outputs,
             spread_ffts_output, MAX_TIME_SECONDS, MAX_PEAKS, signatures, next_signature,
             pc, call, outcome, returned, feeds>>
vars == <<codecVars, genVars>>

(***************************************************************************)
(* Bytes and little-endian words.                                          *)
(***************************************************************************)
Byte == 0..255

Min(a, b) == IF a < b THEN a ELSE b

\* n.to_bytes(2, 'little'), for 0 <= n < 2^16
U16LE(n) == <<n % 256, (n \div 256) % 256>>

\* the word written most significant byte first
U32BE(n) == <<(n \div 16777216) % 256, (n \div 65536) % 256, (n \div 256) % 256, n % 256>>

\* n.to_bytes(4, 'little'), for 0 <= n < 2^31
U32LE(n) == <<n % 256, (n \div 256) % 256, (n \div 65536) % 256, (n \div 16777216) % 256>>

\* b'\x00' * n
Zeros(n) == [i \in 1..n |-> 0]

\* the largest integer the model can hold; a word at or above 2^31 is read as this
IntCap == 2147483647

\* int.from_bytes(bs, 'little') for 0 to 4 bytes (b'' gives 0)
FromBytesLE(bs) ==
    IF Len(bs) >= 4 /\ bs[4] >= 128 THEN IntCap
    ELSE (IF Len(bs) >= 1 THEN bs[1] ELSE 0)
       + (IF Len(bs) >= 2 THEN bs[2] * 256 ELSE 0)
       + (IF Len(bs) >= 3 THEN bs[3] * 65536 ELSE 0)
       + (IF Len(bs) >= 4 THEN bs[4] * 16777216 ELSE 0)

\* BytesIO.read(n) at position pos (0-based): at most n bytes, fewer at the end
Read(bs, pos, n) ==
    IF pos >= Len(bs) THEN <<>>
    ELSE IF n >= Len(bs) - pos THEN SubSeq(bs, pos + 1, Len(bs))
    ELSE SubSeq(bs, pos + 1, pos + n)

(***************************************************************************)
(* binascii.crc32: the reflected CRC-32 (polynomial 0xEDB88320), kept as a *)
(* pair <<high 16 bits, low 16 bits>>.                                     *)
(***************************************************************************)
RECURSIVE BitXor(_, _, _)
\* a ^ b for two n-bit naturals
BitXor(a, b, n) ==
    IF n = 0 THEN 0
    ELSE ((a + b) % 2) + 2 * BitXor(a \div 2, b \div 2, n - 1)

\* a ^ b through a table of 4-bit xors
XorNibble == [a \in 0..15 |-> [b \in 0..15 |-> BitXor(a, b, 4)]]
Xor8(a, b) == XorNibble[a \div 16][b \div 16] * 16 + XorNibble[a % 16][b % 16]
Xor16(a, b) == Xor8(a \div 256, b \div 256) * 256 + Xor8(a % 256, b % 256)

\* one step of the bitwise CRC: shift right by one, xor the polynomial if a bit fell out
CrcShift(w) ==
    LET hi == w[1] \div 2
        lo == (w[2] \div 2) + (w[1] % 2) * 32768
    IN  IF w[2] % 2 = 1
        THEN <<Xor16(hi, 60856), Xor16(lo, 33568)>>   \* 0xEDB8, 0x8320
        ELSE <<hi, lo>>

RECURSIVE CrcShifts(_, _)
CrcShifts(w, n) == IF n = 0 THEN w ELSE CrcShifts(CrcShift(w), n - 1)

\* the 256-entry table of the byte-wise CRC
CrcTable == [i \in 0..255 |-> CrcShifts(<<0, i>>, 8)]

\* the CRC register after one more byte
CrcByte(w, b) ==
    LET t == CrcTable[Xor8(w[2] % 256, b)]
    IN  <<Xor16(w[1] \div 256, t[1]),
          Xor16((w[2] \div 256) + (w[1] % 256) * 256, t[2])>>

RECURSIVE CrcRun(_, _, _, _)
\* the CRC register after bytes lo..hi of bs. The range is halved and the register
\* after the first half is bound as a value before the second half runs, which
\* keeps the evaluation shallow on long payloads.
CrcRun(w, bs, lo, hi) ==
    IF lo > hi THEN w
    ELSE IF lo = hi THEN CrcByte(w, bs[lo])
    ELSE LET mid == (lo + hi) \div 2
         IN  CHOOSE r \in {CrcRun(left, bs, mid + 1, hi) : left \in {CrcRun(w, bs, lo, mid)}} : TRUE

\* crc32(bs) & 0xFFFFFFFF, as its four little-endian bytes
crc32(bs) ==
    LET w == CrcRun(<<65535, 65535>>, bs, 1, Len(bs))
        hi == 65535 - w[1]
        lo == 65535 - w[2]
    IN  <<lo % 256, lo \div 256, hi % 256, hi \div 256>>

(***************************************************************************)
(* signature_format.py: constants and the data model.                      *)
(***************************************************************************)
HEADER_SIZE == 48

\* 0xCAFE2580 and 0x94119C00 as little-endian bytes
HEADER_MAGIC1 == <<128, 37, 254, 202>>
HEADER_MAGIC2 == <<0, 156, 17, 148>>
HEADER_MAGIC3 == (15 * 524288) + 262144

\* rate id -> rate; the header holds the id shifted left by 27 bits
RateIds == {<<1, 8000>>, <<2, 11025>>, <<3, 16000>>, <<4, 32000>>, <<5, 44100>>, <<6, 48000>>}
SHIFTED_SAMPLE_RATE_FROM_ID ==
    [id \in {p[1] * 134217728 : p \in RateIds} |->
        (CHOOSE p \in RateIds : p[1] * 134217728 = id)[2]]
SHIFTED_SAMPLE_RATE_TO_ID ==
    [rate_hz \in {p[2] : p \in RateIds} |->
        CHOOSE rate_id \in DOMAIN SHIFTED_SAMPLE_RATE_FROM_ID :
            SHIFTED_SAMPLE_RATE_FROM_ID[rate_id] = rate_hz]

\* FrequencyBand: band_0_250 = -1, band_250_520 = 0, ..., band_3500_5500 = 3
FrequencyBand == -1..3

\* the type tag of a band's TLV entry is 0x60030040 + band
BandTagBase == 1610809408
\* the first word of the fixed first chunk, 0x40000000
FirstChunkTag == 1073741824

FrequencyPeak(fft_pass_number, peak_magnitude, corrected_peak_frequency_bin, sample_rate_hz) ==
    [fft_pass_number |-> fft_pass_number,
     peak_magnitude |-> peak_magnitude,
     corrected_peak_frequency_bin |-> corrected_peak_frequency_bin,
     sample_rate_hz |-> sample_rate_hz]

\* a DecodedMessage with its three attributes set
DecodedMessage(sample_rate_hz, number_samples, frequency_band_to_sound_peaks) ==
    [sample_rate_hz |-> sample_rate_hz,
     number_samples |-> number_samples,
     frequency_band_to_sound_peaks |-> frequency_band_to_sound_peaks]

\* a mapping with no key
EmptyMap == [b \in {} |-> <<>>]

\* mapping[key] = value
Put(mapping, key, value) ==
    [k \in (DOMAIN mapping) \cup {key} |-> IF k = key THEN value ELSE mapping[k]]

\* sample_rate_hz * 0.24: a whole number for each of the six rates
RateOffset(sample_rate_hz) == (sample_rate_hz * 24) \div 100

(***************************************************************************)
(* DecodedMessage.encode_to_binary                                         *)
(***************************************************************************)
\* the guard with <= for <
OutOfOrderOrEqual(peak_pass, fft_pass_number) == peak_pass <= fft_pass_number

\* line 240: the peak is older than the running fft_pass_number
OutOfOrder(peak_pass, fft_pass_number) == peak_pass < fft_pass_number

\* the escape test with > for >=
NeedsEscapeAbove255(peak_pass, fft_pass_number) == peak_pass - fft_pass_number > 255

\* line 243: the gap does not fit the one-byte delta
NeedsEscape(peak_pass, fft_pass_number) == peak_pass - fft_pass_number >= 255

\* lines 243-250: the bytes written for one peak that is not out of order
PackPeak(frequency_peak, fft_pass_number) ==
    LET esc == NeedsEscape(frequency_peak.fft_pass_number, fft_pass_number)
        base == IF esc THEN frequency_peak.fft_pass_number ELSE fft_pass_number
    IN  (IF esc THEN <<255>> \o U32LE(frequency_peak.fft_pass_number) ELSE <<>>)
        \o <<frequency_peak.fft_pass_number - base>>
        \o U16LE(frequency_peak.peak_magnitude)
        \o U16LE(frequency_peak.corrected_peak_frequency_bin)

RECURSIVE PackPeaks(_, _)
\* lines 232-252: peaks_buf for one band, or the ValueError of line 241
PackPeaks(frequency_peaks, fft_pass_number) ==
    IF frequency_peaks = <<>> THEN [ok |-> TRUE, bytes |-> <<>>]
    ELSE LET frequency_peak == Head(frequency_peaks)
         IN  IF OutOfOrder(frequency_peak.fft_pass_number, fft_pass_number)
             THEN [ok |-> FALSE, bytes |-> <<>>]
             ELSE LET rest == PackPeaks(Tail(frequency_peaks), frequency_peak.fft_pass_number)
                  IN  [ok |-> rest.ok,
                       bytes |-> PackPeak(frequency_peak, fft_pass_number) \o rest.bytes]

RECURSIVE SortedKeysDescending(_)
\* the keys from the greatest down
SortedKeysDescending(keys) ==
    IF keys = {} THEN <<>>
    ELSE LET greatest == CHOOSE k \in keys : \A j \in keys : j <= k
         IN  <<greatest>> \o SortedKeysDescending(keys \ {greatest})

RECURSIVE SortedKeys(_)
\* the keys of sorted(mapping.items()), ascending
SortedKeys(keys) ==
    IF keys = {} THEN <<>>
    ELSE LET least == CHOOSE k \in keys : \A j \in keys : k <= j
         IN  <<least>> \o SortedKeys(keys \ {least})

\* the entry without its padding
TlvEntryUnpadded(frequency_band, peaks_buf) ==
    U32LE(BandTagBase + frequency_band) \o U32LE(Len(peaks_buf)) \o peaks_buf

\* lines 254-257: one TLV entry
TlvEntry(frequency_band, peaks_buf) ==
    U32LE(BandTagBase + frequency_band)
    \o U32LE(Len(peaks_buf))
    \o peaks_buf
    \o Zeros((-Len(peaks_buf)) % 4)

RECURSIVE PackBands(_, _)
\* lines 231-257: contents_buf over the bands in order, or the ValueError
PackBands(mapping, bands) ==
    IF bands = <<>> THEN [ok |-> TRUE, bytes |-> <<>>]
    ELSE LET packed == PackPeaks(mapping[Head(bands)], 0)
         IN  IF ~packed.ok THEN [ok |-> FALSE, bytes |-> <<>>]
             ELSE LET rest == PackBands(mapping, Tail(bands))
                  IN  [ok |-> rest.ok,
                       bytes |-> TlvEntry(Head(bands), packed.bytes) \o rest.bytes]

\* bytes(header): the 48 packed bytes of RawSignatureHeader
RawSignatureHeader(crc, size_minus_header, shifted_sample_rate_id, number_samples_plus) ==
    HEADER_MAGIC1 \o crc \o U32LE(size_minus_header) \o HEADER_MAGIC2
    \o Zeros(12) \o U32LE(shifted_sample_rate_id) \o Zeros(8)
    \o U32LE(number_samples_plus) \o U32LE(HEADER_MAGIC3)

\* lines 261-276: the header, the first chunk and the contents, with the CRC-32 of
\* everything after the first 8 bytes written into the header
Assemble(shifted_sample_rate_id, number_samples_plus, contents) ==
    LET size == Len(contents) + 8
        body == U32LE(FirstChunkTag) \o U32LE(size) \o contents
        draft == RawSignatureHeader(Zeros(4), size, shifted_sample_rate_id, number_samples_plus)
                 \o body
    IN  RawSignatureHeader(crc32(Read(draft, 8, Len(draft))), size,
                           shifted_sample_rate_id, number_samples_plus) \o body

\* what the call leaves: the bytes returned, or the error raised; peaks_bufs keeps
\* each band's peaks_buf as packed
EncodeError(kind) == [status |-> "error", error |-> kind, bytes |-> <<>>, peaks_bufs |-> EmptyMap]

encode_to_binary(m) ==
    IF m.sample_rate_hz \notin DOMAIN SHIFTED_SAMPLE_RATE_TO_ID THEN EncodeError("KeyError")
    ELSE LET mapping == m.frequency_band_to_sound_peaks
             contents_buf == PackBands(mapping, SortedKeys(DOMAIN mapping))
         IN  IF ~contents_buf.ok
             THEN EncodeError("frequency_peak.fft_pass_number < fft_pass_number")
             ELSE [status |-> "ok", error |-> "",
                   bytes |-> Assemble(SHIFTED_SAMPLE_RATE_TO_ID[m.sample_rate_hz],
                                      m.number_samples + RateOffset(m.sample_rate_hz),
                                      contents_buf.bytes),
                   peaks_bufs |-> [b \in DOMAIN mapping |-> PackPeaks(mapping[b], 0).bytes]]

(***************************************************************************)
(* DecodedMessage.decode_from_binary                                       *)
(***************************************************************************)
\* buf.readinto(header): the first 48 bytes, the fields past a short input left zero
HeaderBytes(bs) == Read(bs, 0, HEADER_SIZE) \o Zeros(HEADER_SIZE - Min(Len(bs), HEADER_SIZE))

\* the four bytes of the header field at an offset
HeaderField(bs, offset) == SubSeq(HeaderBytes(bs), offset + 1, offset + 4)

\* line 125
MagicOk(bs) == HeaderField(bs, 0) = HEADER_MAGIC1 /\ HeaderField(bs, 12) = HEADER_MAGIC2

\* line 128
SizeOk(bs) == FromBytesLE(HeaderField(bs, 8)) = Len(bs) - HEADER_SIZE

\* the checksum never compared
ChecksumSkipped(bs) == TRUE

\* line 131: the CRC-32 of everything after the first 8 bytes against the header's
ChecksumOk(bs) == crc32(Read(bs, 8, Len(bs))) = HeaderField(bs, 4)

\* lines 144-147
FirstChunkOk(bs) ==
    /\ FromBytesLE(Read(bs, HEADER_SIZE, 4)) = FirstChunkTag
    /\ FromBytesLE(Read(bs, HEADER_SIZE + 4, 4)) = Len(bs) - HEADER_SIZE

RECURSIVE DecodePeaks(_, _, _, _)
\* lines 169-186: the peaks of one band's stream, read from position pos
DecodePeaks(frequency_peaks_buf, pos, fft_pass_number, sample_rate_hz) ==
    LET raw_fft_pass == Read(frequency_peaks_buf, pos, 1)
    IN  IF raw_fft_pass = <<>> THEN <<>>
        ELSE IF raw_fft_pass[1] = 255
        THEN LET absolute == Read(frequency_peaks_buf, pos + 1, 4)
             IN  DecodePeaks(frequency_peaks_buf, pos + 1 + Len(absolute),
                             FromBytesLE(absolute), sample_rate_hz)
        ELSE LET magnitude == Read(frequency_peaks_buf, pos + 1, 2)
                 bin == Read(frequency_peaks_buf, pos + 1 + Len(magnitude), 2)
             IN  <<FrequencyPeak(fft_pass_number + raw_fft_pass[1], FromBytesLE(magnitude),
                                 FromBytesLE(bin), sample_rate_hz)>>
                 \o DecodePeaks(frequency_peaks_buf, pos + 1 + Len(magnitude) + Len(bin),
                                fft_pass_number + raw_fft_pass[1], sample_rate_hz)

RECURSIVE DecodeTlvs(_, _, _, _)
\* lines 153-186: the TLV entries from position pos on; ok is FALSE when
\* FrequencyBand(...) raises on a tag that is no band
DecodeTlvs(bs, pos, mapping, sample_rate_hz) ==
    LET tlv_header == Read(bs, pos, 8)
    IN  IF tlv_header = <<>> THEN [ok |-> TRUE, mapping |-> mapping]
        ELSE LET frequency_band_id == FromBytesLE(SubSeq(tlv_header, 1, Min(4, Len(tlv_header))))
                 frequency_peaks_size == FromBytesLE(SubSeq(tlv_header, 5, Len(tlv_header)))
                 frequency_peaks_padding == (-frequency_peaks_size) % 4
                 body_pos == pos + Len(tlv_header)
                 frequency_peaks_buf == Read(bs, body_pos, frequency_peaks_size)
                 padding == Read(bs, body_pos + Len(frequency_peaks_buf), frequency_peaks_padding)
                 frequency_band == frequency_band_id - BandTagBase
             IN  IF frequency_band \notin FrequencyBand THEN [ok |-> FALSE, mapping |-> mapping]
                 ELSE DecodeTlvs(bs, body_pos + Len(frequency_peaks_buf) + Len(padding),
                                 Put(mapping, frequency_band,
                                     DecodePeaks(frequency_peaks_buf, 0, 0, sample_rate_hz)),
                                 sample_rate_hz)

\* what the call leaves: the message returned, or the error raised together with
\* the attributes of result that were assigned before it
DecodeError(kind, assigned, result) ==
    [status |-> "error", error |-> kind, assigned |-> assigned, result |-> result]

decode_from_binary(bs) ==
    LET unset == DecodedMessage(0, 0, EmptyMap)
    IN  IF ~MagicOk(bs) THEN DecodeError("Wrong magic string specified in header", {}, unset)
        ELSE IF ~SizeOk(bs) THEN DecodeError("Wrong size specified in header", {}, unset)
        ELSE IF ~ChecksumOk(bs) THEN DecodeError("Wrong checksum specified in header", {}, unset)
        ELSE LET shifted_sample_rate_id == FromBytesLE(HeaderField(bs, 28))
             IN  IF shifted_sample_rate_id \notin DOMAIN SHIFTED_SAMPLE_RATE_FROM_ID
                 THEN DecodeError("KeyError", {}, unset)
                 ELSE
        LET sample_rate_hz == SHIFTED_SAMPLE_RATE_FROM_ID[shifted_sample_rate_id]
            number_samples == FromBytesLE(HeaderField(bs, 40)) - RateOffset(sample_rate_hz)
            header_set == {"sample_rate_hz", "number_samples"}
        IN  IF ~FirstChunkOk(bs)
            THEN DecodeError("Unexpected first chunk format", header_set,
                             DecodedMessage(sample_rate_hz, number_samples, EmptyMap))
            ELSE LET tlvs == DecodeTlvs(bs, HEADER_SIZE + 8, EmptyMap, sample_rate_hz)
                     all_set == header_set \cup {"frequency_band_to_sound_peaks"}
                 IN  IF ~tlvs.ok
                     THEN DecodeError("not a valid FrequencyBand", all_set,
                                      DecodedMessage(sample_rate_hz, number_samples, tlvs.mapping))
                     ELSE [status |-> "ok", error |-> "", assigned |-> all_set,
                           result |-> DecodedMessage(sample_rate_hz, number_samples, tlvs.mapping)]

(***************************************************************************)
(* The codec as a state machine: a caller builds a DecodedMessage, encodes *)
(* it, and hands the payload (as encoded, or with one byte changed, or     *)
(* rebuilt around a cut body) to the decoder.                              *)
(***************************************************************************)
\* bounds of the messages built
MaxPeaks == 2

ModelRates == DOMAIN SHIFTED_SAMPLE_RATE_TO_ID
ModelNumberSamples == {0, 48000}
ModelBands == {-1, 1, 3}
\* <<fft_pass_number, peak_magnitude, corrected_peak_frequency_bin>>
ModelPeaks == {<<0, 100, 640>>, <<10, 100, 640>>, <<264, 200, 640>>, <<265, 200, 640>>,
               <<520, 65535, 65535>>}

RECURSIVE SeqsUpTo(_, _)
\* the sequences over S of length at most n
SeqsUpTo(S, n) ==
    IF n = 0 THEN {<<>>}
    ELSE LET shorter == SeqsUpTo(S, n - 1)
         IN  shorter \cup {Append(q, x) : q \in {r \in shorter : Len(r) = n - 1}, x \in S}

\* band mappings of at most two bands holding at most MaxPeaks peaks in all
ModelMappings ==
    LET lists == SeqsUpTo(ModelPeaks, MaxPeaks)
    IN  {EmptyMap}
        \cup {[b \in {b1} |-> l] : b1 \in ModelBands, l \in lists}
        \cup {[b \in {b1, b2} |-> IF b = b1 THEN l1 ELSE l2] :
                <<b1, b2, l1, l2>> \in
                    {t \in ModelBands \X ModelBands \X lists \X lists :
                        t[1] < t[2] /\ Len(t[3]) + Len(t[4]) <= MaxPeaks}}

\* a rate other than the message's, for peaks that were built for another pipeline
OtherRate(rate) == IF rate = 16000 THEN 8000 ELSE 16000

\* the message a caller builds out of the pieces
BuildMessage(rate, number_samples, mapping, peak_rate) ==
    DecodedMessage(rate, number_samples,
        [b \in DOMAIN mapping |->
            [i \in 1..Len(mapping[b]) |->
                FrequencyPeak(mapping[b][i][1], mapping[b][i][2], mapping[b][i][3], peak_rate)]])

ModelMessages ==
    {BuildMessage(rate, n, mapping, peak_rate) :
        <<rate, n, mapping, peak_rate>> \in
            {t \in ModelRates \X ModelNumberSamples \X ModelMappings \X ModelRates :
                t[4] \in {t[1], OtherRate(t[1])}}}

NotCalled == [status |-> "none"]
NoData == [origin |-> "none", bytes |-> <<>>]

\* no SignatureGenerator has been constructed
NoGenerator ==
    /\ input_pending_processing = "absent"
    /\ samples_processed = "absent"
    /\ ring_buffer_of_samples = "absent"
    /\ fft_outputs = "absent"
    /\ spread_ffts_output = "absent"
    /\ MAX_TIME_SECONDS = "absent"
    /\ MAX_PEAKS = "absent"
    /\ signatures = "absent"
    /\ next_signature = "absent"
    /\ pc = "absent"
    /\ call = "absent"
    /\ outcome = "absent"
    /\ returned = "absent"
    /\ feeds = "absent"

CodecInit ==
    /\ msg \in ModelMessages
    /\ enc = NotCalled
    /\ data = NoData
    /\ dec = NotCalled
    /\ NoGenerator

\* m.encode_to_binary(); the bytes returned become the payload at hand
EncodeToBinary ==
    /\ enc.status = "none"
    /\ enc' = encode_to_binary(msg)
    /\ data' = IF enc'.status = "ok" THEN [origin |-> "encoded", bytes |-> enc'.bytes] ELSE data
    /\ UNCHANGED <<msg, dec, genVars>>

\* DecodedMessage.decode_from_binary(payload)
DecodeFromBinary ==
    /\ data.origin # "none"
    /\ dec.status = "none"
    /\ dec' = decode_from_binary(data.bytes)
    /\ UNCHANGED <<msg, enc, data, genVars>>

CodecNext == EncodeToBinary \/ DecodeFromBinary

CodecSpec == CodecInit /\ [][CodecNext]_vars

(***************************************************************************)
(* Properties of the codec.                                                *)
(***************************************************************************)
Peaks(m, b) == m.frequency_band_to_sound_peaks[b]
BandsOf(m) == DOMAIN m.frequency_band_to_sound_peaks

\* every band's peaks are non-decreasing in fft_pass_number
SortedByPass(m) ==
    \A b \in BandsOf(m) : \A i \in 1..(Len(Peaks(m, b)) - 1) :
        Peaks(m, b)[i].fft_pass_number <= Peaks(m, b)[i + 1].fft_pass_number

\* some peak is older than the peak before it
HasDescent(m) ==
    \E b \in BandsOf(m) : \E i \in 1..(Len(Peaks(m, b)) - 1) :
        Peaks(m, b)[i + 1].fft_pass_number < Peaks(m, b)[i].fft_pass_number

\* every peak carries the sample rate of its message
PeakRatesMatch(m) ==
    \A b \in BandsOf(m) : \A i \in 1..Len(Peaks(m, b)) :
        Peaks(m, b)[i].sample_rate_hz = m.sample_rate_hz

\* the payload at hand is encode_to_binary(msg) untouched, and it was decoded
RoundTripDone == data.origin = "encoded" /\ dec.status # "none"

\* decode_from_binary returned a message equal to m, field by field
DecodedEquals(m) ==
    /\ dec.status = "ok"
    /\ dec.result.sample_rate_hz = m.sample_rate_hz
    /\ dec.result.number_samples = m.number_samples
    /\ BandsOf(dec.result) = BandsOf(m)
    /\ \A b \in BandsOf(m) :
        /\ Len(Peaks(dec.result, b)) = Len(Peaks(m, b))
        /\ \A i \in 1..Len(Peaks(m, b)) : Peaks(dec.result, b)[i] = Peaks(m, b)[i]

\* the gap of peak i of a list to the peak before it (to 0 for the first)
Gap(peaks, i) ==
    peaks[i].fft_pass_number - (IF i = 1 THEN 0 ELSE peaks[i - 1].fft_pass_number)

\* C1 as the spec words it: every message with sorted peaks comes back from
\* decode_from_binary(encode_to_binary(m)) equal to m, field by field, the
\* sample_rate_hz of each peak included.
C1_RoundTripAsClaimed ==
    /\ (enc.status # "none" /\ SortedByPass(msg)) => enc.status = "ok"
    /\ (RoundTripDone /\ SortedByPass(msg)) => DecodedEquals(msg)

\* C1, amended: a message with sorted peaks that all carry the message's own
\* sample_rate_hz is encoded without error and decodes to itself, field by field.
C1_RoundTrip ==
    /\ (enc.status # "none" /\ SortedByPass(msg)) => enc.status = "ok"
    /\ (RoundTripDone /\ SortedByPass(msg) /\ PeakRatesMatch(msg)) => DecodedEquals(msg)

\* a round trip of a two-band message with an escaped peak and matching rates
C1_Witness ==
    /\ RoundTripDone
    /\ PeakRatesMatch(msg)
    /\ Cardinality(BandsOf(msg)) = 2
    /\ \E b \in BandsOf(msg) : \E i \in 1..Len(Peaks(msg, b)) : Gap(Peaks(msg, b), i) >= 255
    /\ dec.status = "ok"

RECURSIVE StreamShape(_, _, _, _)
\* the stream from position pos on is what C3 says of peaks i.. : the escape 0xFF
\* and the absolute number as u32 LE exactly where the gap is >= 255, then a delta
\* byte in 0..254, then the two u16 fields
StreamShape(stream, pos, peaks, i) ==
    IF i > Len(peaks) THEN pos = Len(stream)
    ELSE LET gap == Gap(peaks, i)
             escaped == gap >= 255
             at == IF escaped THEN pos + 5 ELSE pos
         IN  /\ Len(stream) >= at + 5
             /\ escaped => /\ stream[pos + 1] = 255
                           /\ SubSeq(stream, pos + 2, pos + 5) = U32LE(peaks[i].fft_pass_number)
             /\ stream[at + 1] = (IF escaped THEN 0 ELSE gap)
             /\ stream[at + 1] \in 0..254
             /\ SubSeq(stream, at + 2, at + 3) = U16LE(peaks[i].peak_magnitude)
             /\ SubSeq(stream, at + 4, at + 5) = U16LE(peaks[i].corrected_peak_frequency_bin)
             /\ StreamShape(stream, at + 5, peaks, i + 1)

\* C3: the encoder writes the 0xFF escape and the absolute fft_pass_number exactly
\* for the peaks whose gap to the running value is >= 255, every delta byte is in
\* 0..254, and the decoder recovers every peak's absolute fft_pass_number.
C3_DeltaEscape ==
    /\ enc.status = "ok" =>
        \A b \in BandsOf(msg) : StreamShape(enc.peaks_bufs[b], 0, Peaks(msg, b), 1)
    /\ RoundTripDone =>
        /\ dec.status = "ok"
        /\ BandsOf(dec.result) = BandsOf(msg)
        /\ \A b \in BandsOf(msg) :
            /\ Len(Peaks(dec.result, b)) = Len(Peaks(msg, b))
            /\ \A i \in 1..Len(Peaks(msg, b)) :
                Peaks(dec.result, b)[i].fft_pass_number = Peaks(msg, b)[i].fft_pass_number

\* a decoded stream holding a gap of exactly 255 (escaped) after a gap below 255
C3_Witness ==
    /\ RoundTripDone
    /\ \E b \in BandsOf(msg) :
        /\ Len(Peaks(msg, b)) = 2
        /\ Gap(Peaks(msg, b), 1) \in 1..254
        /\ Gap(Peaks(msg, b), 2) = 255
        /\ enc.peaks_bufs[b][6] = 255

\* seq holds sub as a contiguous run
Contains(seq, sub) ==
    \E i \in 0..(Len(seq) - Len(sub)) : SubSeq(seq, i + 1, i + Len(sub)) = sub

\* scenario 3 of the spec: two peaks, 255 passes apart, in band_520_1450
Scenario3Message ==
    DecodedMessage(16000, 48000,
        [b \in {1} |-> <<FrequencyPeak(10, 100, 640, 16000), FrequencyPeak(265, 200, 640, 16000)>>])

\* C4 as the spec words it: the packed stream of scenario 3 holds
\* FF 09 01 00 00 00 64 00 80 02 FF 09 01 00 00 00 C8 00 80 02.
C4_ScenarioAsClaimed ==
    (msg = Scenario3Message /\ enc.status # "none") =>
        /\ enc.status = "ok"
        /\ Contains(enc.peaks_bufs[1],
                    <<255, 9, 1, 0, 0, 0, 100, 0, 128, 2, 255, 9, 1, 0, 0, 0, 200, 0, 128, 2>>)

\* C4, amended: the packed stream of scenario 3 is
\* 0A 64 00 80 02 FF 09 01 00 00 00 C8 00 80 02: the first peak goes out with the
\* one-byte delta 0A, and only the second, 255 passes later, with the escape.
C4_Scenario ==
    (msg = Scenario3Message /\ enc.status # "none") =>
        /\ enc.status = "ok"
        /\ enc.peaks_bufs[1] = <<10, 100, 0, 128, 2, 255, 9, 1, 0, 0, 0, 200, 0, 128, 2>>
        /\ Contains(enc.bytes, <<10, 100, 0, 128, 2, 255, 9, 1, 0, 0, 0, 200, 0, 128, 2>>)

\* scenario 3 was encoded
C4_Witness == msg = Scenario3Message /\ enc.status = "ok" /\ Len(enc.bytes) = 80

\* C5: encode_to_binary raises its ordering error, and returns no bytes, exactly
\* when some band holds a peak older than the peak before it.
C5_OrderingGuard ==
    enc.status # "none" =>
        /\ HasDescent(msg) <=>
            (enc.status = "error" /\ enc.error = "frequency_peak.fft_pass_number < fft_pass_number")
        /\ HasDescent(msg) => (enc.bytes = <<>> /\ data.origin = "none")
        /\ ~HasDescent(msg) => enc.status = "ok"

\* the encoder refused a reversed list of distinct pass numbers
C5_Witness ==
    /\ enc.status = "error"
    /\ \E b \in BandsOf(msg) :
        /\ Len(Peaks(msg, b)) = 2
        /\ Peaks(msg, b)[1].fft_pass_number = 265
        /\ Peaks(msg, b)[2].fft_pass_number = 10

(***************************************************************************)
(* Tampering with a valid encoding: one byte changed, or the payload       *)
(* rebuilt (size and CRC-32 recomputed) around a body that was cut short.  *)
(***************************************************************************)
\* bound of the messages that are tampered with
TamperMaxPeaks == 1

ByteMasks == {1, 16, 128, 255}

\* messages at 16 kHz over two bands, with at most TamperMaxPeaks peaks in all
TamperMessages ==
    LET lists == SeqsUpTo(ModelPeaks, TamperMaxPeaks)
        mappings ==
            {EmptyMap}
            \cup {[b \in {b1} |-> l] : b1 \in {1, 3}, l \in lists}
            \cup {[b \in {1, 3} |-> IF b = 1 THEN t[1] ELSE t[2]] :
                    t \in {u \in lists \X lists : Len(u[1]) + Len(u[2]) <= TamperMaxPeaks}}
    IN  {BuildMessage(16000, 48000, mapping, 16000) : mapping \in mappings}

TamperInit ==
    /\ msg \in TamperMessages
    /\ enc = NotCalled
    /\ data = NoData
    /\ dec = NotCalled
    /\ NoGenerator

\* the TLV entries of a payload: everything after the header and the first chunk
BodyOf(bs) == Read(bs, HEADER_SIZE + 8, Len(bs))

\* a payload with the header fields of msg around the given TLV bytes
Rebuilt(contents) ==
    Assemble(SHIFTED_SAMPLE_RATE_TO_ID[msg.sample_rate_hz],
             msg.number_samples + RateOffset(msg.sample_rate_hz), contents)

\* one byte at an offset of at least 8 takes another value
CorruptByte ==
    /\ data.origin = "encoded"
    /\ dec.status = "none"
    /\ \E offset \in 8..(Len(data.bytes) - 1), mask \in ByteMasks :
        data' = [origin |-> "corrupted",
                 bytes |-> [data.bytes EXCEPT ![offset + 1] = Xor8(@, mask)]]
    /\ UNCHANGED <<msg, enc, dec, genVars>>

\* the TLV bytes end early, and the payload is otherwise made valid again
TruncateBody ==
    /\ data.origin = "encoded"
    /\ dec.status = "none"
    /\ \E cut \in 1..(Len(BodyOf(data.bytes)) - 1) :
        data' = [origin |-> "truncated",
                 bytes |-> Rebuilt(SubSeq(BodyOf(data.bytes), 1, cut))]
    /\ UNCHANGED <<msg, enc, dec, genVars>>

\* the first band's peak stream is cut to its first keep bytes and declared with
\* that length, so that the entry is well formed but its last record is not whole
ShortenStream ==
    /\ data.origin = "encoded"
    /\ dec.status = "none"
    /\ BandsOf(msg) # {}
    /\ LET first == SortedKeys(BandsOf(msg))[1]
           stream == enc.peaks_bufs[first]
           whole == TlvEntry(first, stream)
       IN  \E keep \in 1..(Len(stream) - 1) :
            data' = [origin |-> "shortened",
                     bytes |-> Rebuilt(TlvEntry(first, SubSeq(stream, 1, keep))
                                       \o SubSeq(BodyOf(data.bytes), Len(whole) + 1,
                                                 Len(BodyOf(data.bytes))))]
    /\ UNCHANGED <<msg, enc, dec, genVars>>

TamperNext ==
    \/ EncodeToBinary
    \/ CorruptByte
    \/ TruncateBody
    \/ ShortenStream
    \/ DecodeFromBinary

TamperSpec == TamperInit /\ [][TamperNext]_vars

(***************************************************************************)
(* Properties of the decoder on tampered payloads.                         *)
(***************************************************************************)
\* the offset (0-based) of the byte that differs from the encoding
ChangedOffset == (CHOOSE i \in 1..Len(enc.bytes) : data.bytes[i] # enc.bytes[i]) - 1

\* C2: a valid encoding with any one byte at an offset of 8 or more changed makes
\* decode_from_binary raise: the size check for the size field, the magic check
\* for magic2, the CRC-32 check for every other byte; and no attribute of the
\* result has been assigned when it raises.
C2_HeaderValidation ==
    (data.origin = "corrupted" /\ dec.status # "none") =>
        /\ dec.status = "error"
        /\ dec.assigned = {}
        /\ dec.error =
            (IF ChangedOffset \in 8..11 THEN "Wrong size specified in header"
             ELSE IF ChangedOffset \in 12..15 THEN "Wrong magic string specified in header"
             ELSE "Wrong checksum specified in header")

\* the decoder refused a payload whose last byte, in a peak stream, was changed
C2_Witness ==
    /\ data.origin = "corrupted"
    /\ dec.status = "error"
    /\ Len(data.bytes) > HEADER_SIZE + 16
    /\ ChangedOffset = Len(data.bytes) - 1
    /\ dec.error = "Wrong checksum specified in header"

RECURSIVE StreamCutShort(_, _)
\* a peak stream that ends inside a 5-byte record or inside the 4 bytes after 0xFF
StreamCutShort(stream, pos) ==
    IF pos >= Len(stream) THEN FALSE
    ELSE IF Len(stream) - pos < 5 THEN TRUE
    ELSE StreamCutShort(stream, pos + 5)

RECURSIVE HasTruncatedTlv(_, _)
\* the TLV bytes hold an entry that is cut short: fewer than 8 header bytes, a
\* declared length beyond the bytes that remain, or a stream that is cut short
HasTruncatedTlv(body, pos) ==
    LET remain == Len(body) - pos
        declared == FromBytesLE(SubSeq(body, pos + 5, pos + 8))
    IN  IF remain <= 0 THEN FALSE
        ELSE IF remain < 8 THEN TRUE
        ELSE IF declared > remain - 8 THEN TRUE
        ELSE IF StreamCutShort(SubSeq(body, pos + 9, pos + 8 + declared), 0) THEN TRUE
        ELSE HasTruncatedTlv(body, pos + 8 + declared + ((-declared) % 4))

\* C6 as the spec words it: a payload with a valid header and first chunk whose
\* body holds a truncated TLV entry is refused with an error.
C6_TruncatedBodyRejected ==
    (/\ data.origin \in {"truncated", "shortened"}
     /\ dec.status # "none"
     /\ MagicOk(data.bytes) /\ SizeOk(data.bytes) /\ ChecksumOk(data.bytes)
     /\ FirstChunkOk(data.bytes)
     /\ HasTruncatedTlv(BodyOf(data.bytes), 0))
        => dec.status = "error"

(***************************************************************************)
(* Python lists, as algorithm.py uses them                                 *)
(***************************************************************************)
Max(a, b) == IF a > b THEN a ELSE b

\* where Python puts the bound i of a slice of a list of length n
SliceBound(i, n) == IF i < 0 THEN Max(i + n, 0) ELSE Min(i, n)

\* s[a:b]
Slice(s, a, b) ==
    LET lo == SliceBound(a, Len(s))
        hi == SliceBound(b, Len(s))
    IN  IF hi <= lo THEN <<>> ELSE SubSeq(s, lo + 1, hi)

\* s[a:b] = v
SliceAssign(s, a, b, v) ==
    LET lo == SliceBound(a, Len(s))
        hi == Max(SliceBound(b, Len(s)), lo)
    IN  SubSeq(s, 1, lo) \o v \o SubSeq(s, hi + 1, Len(s))

\* [value] * n
Repeat(value, n) == [i \in 1..n |-> value]

(***************************************************************************)
(* The list of samples fed to the generator is long and made of few        *)
(* different values in a row: it is held as its runs, each a sample value  *)
(* and the number of times it is repeated.                                 *)
(***************************************************************************)
\* [sample] * count as a list of samples
Samples(sample, count) ==
    IF count = 0 THEN <<>> ELSE <<[sample |-> sample, count |-> count]>>

RECURSIVE SamplesLen(_)
\* len(samples)
SamplesLen(samples) ==
    IF samples = <<>> THEN 0 ELSE Head(samples).count + SamplesLen(Tail(samples))

\* more in place of samples
Overwrite(samples, more) == more

\* samples + more
Extend(samples, more) ==
    IF samples = <<>> THEN more
    ELSE IF more = <<>> THEN samples
    ELSE LET last == samples[Len(samples)]
         IN  IF last.sample = Head(more).sample
             THEN SubSeq(samples, 1, Len(samples) - 1)
                    \o Samples(last.sample, last.count + Head(more).count)
                    \o Tail(more)
             ELSE samples \o more

RECURSIVE Expand(_, _, _)
\* the samples of positions lo..hi-1 of the list, for 0 <= lo <= hi <= len(samples)
Expand(samples, lo, hi) ==
    IF samples = <<>> \/ hi <= 0 THEN <<>>
    ELSE LET run == Head(samples)
             from == Max(lo, 0)
             to == Min(hi, run.count)
         IN  (IF to > from THEN Repeat(run.sample, to - from) ELSE <<>>)
                \o Expand(Tail(samples), lo - run.count, hi - run.count)

\* samples[a:b], as a plain list
SamplesSlice(samples, a, b) ==
    LET lo == SliceBound(a, SamplesLen(samples))
        hi == SliceBound(b, SamplesLen(samples))
    IN  IF hi <= lo THEN <<>> ELSE Expand(samples, lo, hi)

(***************************************************************************)
(* Spectra. A list of 1025 powers is held as the value most bins have and  *)
(* the bins that differ from it. Powers are counted in units of 1e-10, the *)
(* floor of line 157, so that 1/64 is 156250000.                           *)
(***************************************************************************)
NumBins == 1025
PowerFloor == 1
PeakThreshold == 156250000

\* the list whose bin k holds values[k] where values is defined and base elsewhere
Frame(base, values) ==
    [base |-> base, over |-> [k \in {j \in DOMAIN values : values[j] # base} |-> values[k]]]

\* [v] * 1025
ConstantFrame(v) == [base |-> v, over |-> [k \in {} |-> v]]

\* frame[k]
At(frame, k) == IF k \in DOMAIN frame.over THEN frame.over[k] ELSE frame.base

\* the list of max(f[k], g[k])
PointwiseMax(f, g) ==
    Frame(Max(f.base, g.base),
          [k \in (DOMAIN f.over) \cup (DOMAIN g.over) |-> Max(At(f, k), At(g, k))])

(***************************************************************************)
(* RingBuffer                                                              *)
(***************************************************************************)
RingBuffer(buffer_size, default_value) ==
    [buf |-> Repeat(default_value, buffer_size),
     position |-> 0,
     buffer_size |-> buffer_size,
     num_written |-> 0]

\* ring.append(value)
append(ring, value) ==
    [ring EXCEPT !.buf[ring.position + 1] = value,
                 !.position = (ring.position + 1) % ring.buffer_size,
                 !.num_written = @ + 1]

\* ring[i], where a negative i counts from the end
Item(ring, i) == ring.buf[(IF i < 0 THEN i + Len(ring.buf) ELSE i) + 1]

(***************************************************************************)
(* SignatureGenerator.do_fft                                               *)
(*                                                                         *)
(* numpy's rfft is not part of the repository and is not computed here.    *)
(* The power spectrum of a window is taken from the newest sample of the   *)
(* window: a sample value stands for the sound of its 128-sample chunk.    *)
(* Silence gives the floor in every bin, which is what lines 156-157 give  *)
(* for a window of zeros; the other values give one or two bins above the  *)
(* floor, louder or quieter than the 1/64 of line 192, among them two      *)
(* neighbouring bins of equal power and a bin next to a weaker one.        *)
(***************************************************************************)
ModelSpectrum(sample) ==
    CASE sample = 1000 -> Frame(PowerFloor, [k \in {128} |-> 1000000000])
      [] sample = 2000 -> Frame(PowerFloor, [k \in {256} |-> 2000000000])
      [] sample = 3000 -> Frame(PowerFloor, [k \in {64, 512} |-> 1000000000])
      [] sample = 4000 -> Frame(PowerFloor, [k \in {20, 800} |-> 2000000000])
      [] sample = 5000 -> Frame(PowerFloor, [k \in {32, 704} |-> 1000000000])
      [] sample = 6000 -> Frame(PowerFloor, [k \in {31, 705} |-> 1000000000])
      [] sample = 7000 -> Frame(PowerFloor, [k \in {32, 33, 704, 705} |->
                                                IF k \in {32, 704} THEN 2000000000 ELSE 1000000000])
      [] sample = 8000 -> Frame(PowerFloor, [k \in {300, 301} |-> 1000000000])
      [] sample = 9000 -> Frame(PowerFloor, [k \in {66, 67, 185, 186} |->
                                                CASE k = 66 -> 885900000
                                                  [] k = 185 -> 804900000
                                                  [] OTHER -> 1000000000])
      [] sample = 10 -> Frame(PowerFloor, [k \in {128} |-> 100000000])
      [] OTHER -> ConstantFrame(PowerFloor)

\* lines 144-157: the 1025 powers of the excerpt, floored at 1e-10
fft_results(excerpt) == ModelSpectrum(excerpt[Len(excerpt)])

\* self is the part of the generator that process_input works on: the three
\* rings, the signature being filled, and the exception raised if any
\* the ring as it lies, from slot 0
excerpt_in_ring_order(ring) == ring.buf

\* lines 136-139
excerpt_from_ring_buffer(ring) ==
    Slice(ring.buf, ring.position, Len(ring.buf)) \o Slice(ring.buf, 0, ring.position)

do_fft(self, batch) ==
    LET ring == self.ring_buffer_of_samples
        written ==
            [ring EXCEPT !.buf = SliceAssign(@, ring.position, ring.position + Len(batch), batch),
                         !.position = (ring.position + Len(batch)) % 2048,
                         !.num_written = @ + Len(batch)]
    IN  IF Len(excerpt_from_ring_buffer(written)) # 2048
        THEN [self EXCEPT !.ring_buffer_of_samples = written, !.raised = "RuntimeError"]
        ELSE [self EXCEPT !.ring_buffer_of_samples = written,
                          !.fft_outputs = append(@, fft_results(excerpt_from_ring_buffer(written)))]

(***************************************************************************)
(* SignatureGenerator.do_peak_spreading                                    *)
(***************************************************************************)
\* frame[k] = v
SetBin(frame, k, v) ==
    Frame(frame.base, [j \in (DOMAIN frame.over) \cup {k} |-> IF j = k THEN v ELSE At(frame, j)])

RECURSIVE SpreadLoop(_, _)
\* line 171 at each of positions, in their order, on the list itself: what
\* position k reads at k + 1 and k + 2 is what the loop left there
SpreadLoop(spread_last_fft, positions) ==
    IF positions = <<>> THEN spread_last_fft
    ELSE LET position == Head(positions)
         IN  SpreadLoop(SetBin(spread_last_fft, position,
                               Max(Max(At(spread_last_fft, position), At(spread_last_fft, position + 1)),
                                   At(spread_last_fft, position + 2))),
                        Tail(positions))

\* the positions below 1023 where line 171 can change the list: those with a
\* bin that differs from the common power of the frame at most two above
SpreadPositions(origin_last_fft) ==
    {j - d : j \in DOMAIN origin_last_fft.over, d \in 0..2} \cap (0..1022)

\* the loop run downwards, over the positions up to six below such a bin
FrequencySpreadDownwards(origin_last_fft) ==
    SpreadLoop(origin_last_fft,
               SortedKeysDescending({j - d : j \in DOMAIN origin_last_fft.over, d \in 0..6}
                                        \cap (0..1022)))

\* lines 167-171: the copy of the frame, and the loop upwards over it
FrequencySpread(origin_last_fft) ==
    SpreadLoop(origin_last_fft, SortedKeys(SpreadPositions(origin_last_fft)))

\* the spreading left out
do_peak_spreading_skipped(self) == self

\* the three former frames each raised to the new list alone
do_peak_spreading_unchained(self) ==
    LET ring == self.spread_ffts_output
        spread_last_fft == FrequencySpread(Item(self.fft_outputs, self.fft_outputs.position - 1))
        slot(former_fft_num) == ((ring.position + former_fft_num) % ring.buffer_size) + 1
        spreaded ==
            [ring EXCEPT !.buf[slot(-1)] = PointwiseMax(@, spread_last_fft),
                         !.buf[slot(-3)] = PointwiseMax(@, spread_last_fft),
                         !.buf[slot(-6)] = PointwiseMax(@, spread_last_fft)]
    IN  [self EXCEPT !.spread_ffts_output = append(spreaded, spread_last_fft)]

\* lines 165-183
do_peak_spreading(self) ==
    LET ring == self.spread_ffts_output
        origin_last_fft == Item(self.fft_outputs, self.fft_outputs.position - 1)
        spread_last_fft == FrequencySpread(origin_last_fft)
        slot(former_fft_num) == ((ring.position + former_fft_num) % ring.buffer_size) + 1
        former1 == PointwiseMax(ring.buf[slot(-1)], spread_last_fft)
        former3 == PointwiseMax(ring.buf[slot(-3)], former1)
        former6 == PointwiseMax(ring.buf[slot(-6)], former3)
        spreaded ==
            [ring EXCEPT !.buf[slot(-1)] = former1,
                         !.buf[slot(-3)] = former3,
                         !.buf[slot(-6)] = former6]
    IN  [self EXCEPT !.spread_ffts_output = append(spreaded, spread_last_fft)]

(***************************************************************************)
(* SignatureGenerator.do_peak_recognition                                  *)
(***************************************************************************)
\* the neighbourhood without the bin next above
NeighborOffsetsWithoutNext == {-10, -7, -4, -3, 2, 5, 8}

\* (*range(-10, -3, 3), -3, 1, *range(2, 9, 3))
NeighborOffsets == {-10, -7, -4, -3, 1, 2, 5, 8}
\* (-53, -45, *range(165, 201, 7), *range(214, 250, 7))
OtherOffsets == {-53, -45} \cup {165 + 7 * i : i \in 0..5} \cup {214 + 7 * i : i \in 0..5}

SetMax(S) == CHOOSE m \in S : \A x \in S : x <= m

\* log(max(1 / 64, power)) * 1477.3 + 6144 in hundredths, for the powers of ModelSpectrum
LogMagnitude(power) ==
    LET clipped == Max(PeakThreshold, power)
    IN  CASE clipped = 156250000 -> 8
          [] clipped = 804900000 -> 242176
          [] clipped = 885900000 -> 256341
          [] clipped = 1000000000 -> 274239
          [] clipped = 2000000000 -> 376637

\* lines 191-216: whether bin_position of the frame 46 strides back is a peak
IsPeak(self, bin_position) ==
    LET ring == self.spread_ffts_output
        fft_minus_46 == Item(self.fft_outputs, (self.fft_outputs.position - 46) % self.fft_outputs.buffer_size)
        fft_minus_49 == Item(ring, (ring.position - 49) % ring.buffer_size)
        power == At(fft_minus_46, bin_position)
    IN  /\ power >= PeakThreshold
        /\ power >= At(fft_minus_49, bin_position - 1)
        /\ LET max_neighbor_in_fft_minus_49 ==
                   SetMax({0} \cup {At(fft_minus_49, bin_position + neighbor_offset) :
                                        neighbor_offset \in NeighborOffsets})
               max_neighbor_in_other_adjacent_ffts ==
                   SetMax({max_neighbor_in_fft_minus_49}
                          \cup {At(Item(ring, (ring.position + other_offset) % ring.buffer_size),
                                   bin_position - 1) : other_offset \in OtherOffsets})
           IN  /\ power > max_neighbor_in_fft_minus_49
               /\ power > max_neighbor_in_other_adjacent_ffts

\* the bands with 500 Hz between the first two
BandOfBinFrom500(corrected_centibin) ==
    IF corrected_centibin < 204800 THEN -2
    ELSE IF corrected_centibin < 409600 THEN 0
    ELSE IF corrected_centibin < 1187840 THEN 1
    ELSE IF corrected_centibin < 2867200 THEN 2
    ELSE IF corrected_centibin <= 4505600 THEN 3
    ELSE -2

\* the bands with nothing dropped below 250 Hz
BandOfBinFromZero(corrected_centibin) ==
    IF corrected_centibin < 425984 THEN 0
    ELSE IF corrected_centibin < 1187840 THEN 1
    ELSE IF corrected_centibin < 2867200 THEN 2
    ELSE IF corrected_centibin <= 4505600 THEN 3
    ELSE -2

\* the band of a corrected bin in hundredths; -2 where the loop continues
\* (lines 233-245: 250, 520, 1450, 3500 and 5500 Hz are bins 2048, 4259.84,
\* 11878.4, 28672 and 45056)
BandOfBin(corrected_centibin) ==
    IF corrected_centibin < 204800 THEN -2
    ELSE IF corrected_centibin < 425984 THEN 0
    ELSE IF corrected_centibin < 1187840 THEN 1
    ELSE IF corrected_centibin < 2867200 THEN 2
    ELSE IF corrected_centibin <= 4505600 THEN 3
    ELSE -2

\* the peak put in front of the list
PrependPeak(peaks, peak) == <<peak>> \o peaks

\* line 250: peaks.append(peak)
AppendPeak(peaks, peak) == Append(peaks, peak)

\* the number of the stride after the one tested
PassNumberOfNextStride(num_written) == num_written - 45

\* line 218
PassNumber(num_written) == num_written - 46

RECURSIVE StorePeaks(_, _)
\* lines 217-257 for the bins that passed the tests, in the order of the loop
StorePeaks(self, bins) ==
    IF bins = <<>> THEN self
    ELSE LET bin_position == Head(bins)
             fft_minus_46 == Item(self.fft_outputs, (self.fft_outputs.position - 46) % self.fft_outputs.buffer_size)
             fft_number == PassNumber(self.spread_ffts_output.num_written)
             peak_magnitude == LogMagnitude(At(fft_minus_46, bin_position))
             peak_magnitude_before == LogMagnitude(At(fft_minus_46, bin_position - 1))
             peak_magnitude_after == LogMagnitude(At(fft_minus_46, bin_position + 1))
             peak_variation_1 == peak_magnitude * 2 - peak_magnitude_before - peak_magnitude_after
             peak_variation_2 == ((peak_magnitude_after - peak_magnitude_before) * 3200) \div peak_variation_1
             corrected_peak_frequency_bin == bin_position * 6400 + peak_variation_2
             band == BandOfBin(corrected_peak_frequency_bin)
             mapping == self.next_signature.frequency_band_to_sound_peaks
             peak == FrequencyPeak(fft_number, peak_magnitude \div 100,
                                   corrected_peak_frequency_bin \div 100, 16000)
         IN  IF peak_variation_1 <= 0 THEN [self EXCEPT !.raised = "RuntimeError"]
             ELSE IF band = -2 THEN StorePeaks(self, Tail(bins))
             ELSE StorePeaks(
                    [self EXCEPT !.next_signature.frequency_band_to_sound_peaks =
                        Put(mapping, band,
                            AppendPeak(IF band \in DOMAIN mapping THEN mapping[band] ELSE <<>>, peak))],
                    Tail(bins))

\* the loop of line 189. A bin that holds the common power of its frame passes
\* line 192 only if that power is at least 1/64, so the bins that differ from
\* it are the only ones looked at otherwise.
do_peak_recognition(self) ==
    LET fft_minus_46 == Item(self.fft_outputs, (self.fft_outputs.position - 46) % self.fft_outputs.buffer_size)
        bins == IF fft_minus_46.base >= PeakThreshold THEN 10..1014
                ELSE (10..1014) \cap DOMAIN fft_minus_46.over
    IN  StorePeaks(self, SortedKeys({bin_position \in bins : IsPeak(self, bin_position)}))

\* line 160
do_peak_spreading_and_recognition(self) ==
    LET spreaded == do_peak_spreading(self)
    IN  IF spreaded.spread_ffts_output.num_written >= 46
        THEN do_peak_recognition(spreaded)
        ELSE spreaded

(***************************************************************************)
(* SignatureGenerator.process_input                                        *)
(***************************************************************************)
RECURSIVE ProcessChunks(_, _, _)
\* the loop of line 118, from position_of_chunk on; an exception ends it
ProcessChunks(self, s16le_mono_samples, position_of_chunk) ==
    IF position_of_chunk >= Len(s16le_mono_samples) \/ self.raised # "none" THEN self
    ELSE LET transformed == do_fft(self, Slice(s16le_mono_samples, position_of_chunk,
                                               position_of_chunk + 128))
         IN  ProcessChunks(IF transformed.raised # "none" THEN transformed
                           ELSE do_peak_spreading_and_recognition(transformed),
                           s16le_mono_samples, position_of_chunk + 128)

\* the chunks processed without line 117
process_input_uncounted(self, s16le_mono_samples) ==
    ProcessChunks(self, s16le_mono_samples, 0)

process_input(self, s16le_mono_samples) ==
    ProcessChunks([self EXCEPT !.next_signature.number_samples = @ + Len(s16le_mono_samples)],
                  s16le_mono_samples, 0)

(***************************************************************************)
(* SignatureGenerator as a state machine. A call of __next__ is followed   *)
(* through get_next_signature one loop test at a time: pc is "loop" while  *)
(* the while statement of line 91 is running.                              *)
(***************************************************************************)
MaxFeeds == 2
TailChunks == 47

\* 128 samples of one sound
Chunk(sample) == Samples(sample, 128)

\* the sample lists handed to feed_input: less than a chunk, silent but for
\* its last sample (a lone sample of 1 gives powers of at most 2^-17, below
\* every threshold of the recognition), a window of silence, and loud chunks
\* followed by enough silence for their peaks to be recognised 46 strides later
ModelFeeds ==
    {Samples(0, 99) \o Samples(1, 1),
     Samples(0, 2048),
     Chunk(1000) \o Samples(0, TailChunks * 128),
     Chunk(3000) \o Chunk(2000) \o Chunk(4000) \o Chunk(10) \o Samples(0, TailChunks * 128)}

\* the budgets a caller sets in place of the defaults, as api.py does for
\* MAX_TIME_SECONDS: <<milliseconds, peaks>>
ModelBudgets == {<<400, 1>>, <<8, 2>>, <<0, 1>>}

\* lines 56-59 and 105-108
FreshSignature == DecodedMessage(16000, 0, EmptyMap)

\* the object created last is given the value and used again
AllocateInPlace(store, value) ==
    IF store = <<>> THEN [store |-> <<value>>, id |-> 1]
    ELSE [store |-> [store EXCEPT ![Len(store)] = value], id |-> Len(store)]

\* DecodedMessage(): a new object in the store of signatures
Allocate(store, value) == [store |-> Append(store, value), id |-> Len(store) + 1]

NoCall == [entry |-> 0, strides |-> 0, passed |-> 0]
NoResult == [kind |-> "none", value |-> 0, raised |-> "none"]

\* the codec is not in use
NoCodec ==
    /\ msg = "absent"
    /\ enc = NotCalled
    /\ data = NoData
    /\ dec = NotCalled

\* SignatureGenerator.__init__
GenInit ==
    /\ NoCodec
    /\ input_pending_processing = <<>>
    /\ samples_processed = 0
    /\ ring_buffer_of_samples = RingBuffer(2048, 0)
    /\ spread_ffts_output = RingBuffer(256, ConstantFrame(0))
    /\ fft_outputs = RingBuffer(256, ConstantFrame(0))
    /\ MAX_TIME_SECONDS = 3100
    /\ MAX_PEAKS = 255
    /\ signatures = Allocate(<<>>, FreshSignature).store
    /\ next_signature = Allocate(<<>>, FreshSignature).id
    /\ pc = "idle"
    /\ call = NoCall
    /\ outcome = NoResult
    /\ returned = <<>>
    /\ feeds = 0

\* len(self.input_pending_processing) - self.samples_processed
Unconsumed == SamplesLen(input_pending_processing) - samples_processed

\* the test of line 88 with one sample as the least amount
NothingToConsumeBelowOne(unconsumed) == unconsumed < 1

\* line 88
NothingToConsume(unconsumed) == unconsumed < 128

RECURSIVE SumLens(_, _)
\* sum(len(peaks) for peaks in mapping.values())
SumLens(mapping, bands) ==
    IF bands = {} THEN 0
    ELSE LET b == CHOOSE x \in bands : TRUE
         IN  Len(mapping[b]) + SumLens(mapping, bands \ {b})

TotalPeaks(m) == SumLens(m.frequency_band_to_sound_peaks, DOMAIN m.frequency_band_to_sound_peaks)

\* both budgets must be unspent for the loop to go on
BothBudgetsLeft(m, max_time_ms, max_peaks) ==
    /\ m.number_samples * 1000 < max_time_ms * m.sample_rate_hz
    /\ TotalPeaks(m) < max_peaks

\* the peak budget counted as spent one peak early
BudgetLeftButOne(m, max_time_ms, max_peaks) ==
    \/ m.number_samples * 1000 < max_time_ms * m.sample_rate_hz
    \/ TotalPeaks(m) + 1 < max_peaks

\* lines 93-98, with MAX_TIME_SECONDS in milliseconds
BudgetLeft(m, max_time_ms, max_peaks) ==
    \/ m.number_samples * 1000 < max_time_ms * m.sample_rate_hz
    \/ TotalPeaks(m) < max_peaks

\* lines 92-98
LoopCondition ==
    /\ Unconsumed >= 128
    /\ BudgetLeft(signatures[next_signature], MAX_TIME_SECONDS, MAX_PEAKS)

\* the cursor moved by half a chunk
AdvanceHalf(cursor) == cursor + 64

\* line 101
Advance(cursor) == cursor + 128

\* what process_input works on
Self ==
    [ring_buffer_of_samples |-> ring_buffer_of_samples,
     fft_outputs |-> fft_outputs,
     spread_ffts_output |-> spread_ffts_output,
     next_signature |-> signatures[next_signature],
     raised |-> "none"]

\* feed_input(samples)
feed_input ==
    /\ pc = "idle"
    /\ feeds < MaxFeeds
    /\ \E s16le_mono_samples \in ModelFeeds :
        input_pending_processing' = Extend(input_pending_processing, s16le_mono_samples)
    /\ feeds' = feeds + 1
    /\ UNCHANGED <<samples_processed, ring_buffer_of_samples, fft_outputs, spread_ffts_output,
                   MAX_TIME_SECONDS, MAX_PEAKS, signatures, next_signature, pc, call, outcome,
                   returned, codecVars>>

\* the caller sets both budgets on a generator it has just made
SetBudgets ==
    /\ pc = "idle"
    /\ feeds = 0
    /\ outcome.kind = "none"
    /\ MAX_TIME_SECONDS = 3100
    /\ \E budget \in ModelBudgets :
        /\ MAX_TIME_SECONDS' = budget[1]
        /\ MAX_PEAKS' = budget[2]
    /\ UNCHANGED <<input_pending_processing, samples_processed, ring_buffer_of_samples,
                   fft_outputs, spread_ffts_output, signatures, next_signature, pc, call,
                   outcome, returned, feeds, codecVars>>

\* __next__ calls get_next_signature: lines 88-89 return None and __next__
\* raises StopIteration, or the while statement is entered
get_next_signature ==
    /\ pc = "idle"
    /\ IF NothingToConsume(Unconsumed)
       THEN /\ outcome' = [kind |-> "None", value |-> 0, raised |-> "StopIteration"]
            /\ UNCHANGED <<pc, call>>
       ELSE /\ pc' = "loop"
            /\ call' = [entry |-> samples_processed, strides |-> 0, passed |-> 0]
            /\ UNCHANGED outcome
    /\ UNCHANGED <<input_pending_processing, samples_processed, ring_buffer_of_samples,
                   fft_outputs, spread_ffts_output, MAX_TIME_SECONDS, MAX_PEAKS, signatures,
                   next_signature, returned, feeds, codecVars>>

\* lines 91-101: the loop test holds and one chunk goes through process_input;
\* an exception raised on the way leaves the call
ProcessChunk ==
    /\ pc = "loop"
    /\ LoopCondition
    /\ LET chunk == SamplesSlice(input_pending_processing, samples_processed, samples_processed + 128)
           after == process_input(Self, chunk)
       IN  /\ ring_buffer_of_samples' = after.ring_buffer_of_samples
           /\ fft_outputs' = after.fft_outputs
           /\ spread_ffts_output' = after.spread_ffts_output
           /\ signatures' = [signatures EXCEPT ![next_signature] = after.next_signature]
           /\ IF after.raised = "none"
              THEN /\ samples_processed' = Advance(samples_processed)
                   /\ call' = [call EXCEPT !.strides = @ + 1, !.passed = @ + Len(chunk)]
                   /\ UNCHANGED <<pc, outcome>>
              ELSE /\ pc' = "idle"
                   /\ outcome' = [kind |-> "raised", value |-> 0, raised |-> after.raised]
                   /\ call' = [call EXCEPT !.passed = @ + Len(chunk)]
                   /\ UNCHANGED samples_processed
    /\ UNCHANGED <<input_pending_processing, MAX_TIME_SECONDS, MAX_PEAKS, next_signature,
                   returned, feeds, codecVars>>

\* lines 103-114: the loop test fails; the signature is returned, a new one
\* and three new rings take its place
ReturnSignature ==
    /\ pc = "loop"
    /\ ~LoopCondition
    /\ returned' = Append(returned,
                          [signature |-> next_signature,
                           value |-> signatures[next_signature],
                           entry |-> call.entry,
                           strides |-> call.strides,
                           processed |-> samples_processed,
                           unconsumed |-> Unconsumed])
    /\ signatures' = Allocate(signatures, FreshSignature).store
    /\ next_signature' = Allocate(signatures, FreshSignature).id
    /\ ring_buffer_of_samples' = RingBuffer(2048, 0)
    /\ fft_outputs' = RingBuffer(256, ConstantFrame(0))
    /\ spread_ffts_output' = RingBuffer(256, ConstantFrame(0))
    /\ outcome' = [kind |-> "signature", value |-> next_signature, raised |-> "none"]
    /\ pc' = "idle"
    /\ call' = NoCall
    /\ UNCHANGED <<input_pending_processing, samples_processed, MAX_TIME_SECONDS, MAX_PEAKS,
                   feeds, codecVars>>

GenNext ==
    \/ feed_input
    \/ SetBudgets
    \/ get_next_signature
    \/ ProcessChunk
    \/ ReturnSignature

GenSpec == GenInit /\ [][GenNext]_vars

(***************************************************************************)
(* Properties of the generator                                             *)
(***************************************************************************)
\* the signature being filled
Current == signatures[next_signature]

\* the returned signatures, as they were when they were returned
Returned == {returned[i] : i \in DOMAIN returned}

\* a ring in the state RingBuffer.__init__ leaves it in, every slot zero
SamplesRingInitial(ring) ==
    /\ Len(ring.buf) = 2048
    /\ \A i \in DOMAIN ring.buf : ring.buf[i] = 0
    /\ ring.position = 0
    /\ ring.num_written = 0

\* every bin of the frame holds v
AllBins(frame, v) ==
    /\ \A k \in DOMAIN frame.over : frame.over[k] = v
    /\ (0..(NumBins - 1)) \subseteq DOMAIN frame.over \/ frame.base = v

FramesRingInitial(ring) ==
    /\ Len(ring.buf) = 256
    /\ \A i \in DOMAIN ring.buf : AllBins(ring.buf[i], 0)
    /\ ring.position = 0
    /\ ring.num_written = 0

\* C7: a call of get_next_signature made with fewer than 128 unconsumed
\* samples returns None, so that __next__ raises StopIteration, and leaves
\* samples_processed, the signature under construction, the three rings and
\* the pending input as they were.
C7_NoneBelowOneChunk ==
    [][(get_next_signature /\ Unconsumed < 128) =>
            /\ outcome'.kind = "None"
            /\ outcome'.raised = "StopIteration"
            /\ pc' = "idle"
            /\ UNCHANGED <<samples_processed, signatures, next_signature, ring_buffer_of_samples,
                           fft_outputs, spread_ffts_output, input_pending_processing>>]_vars

\* a call returned None with a part of a chunk left over, after a signature
\* had been returned
C7_Witness ==
    /\ outcome.kind = "None"
    /\ outcome.raised = "StopIteration"
    /\ Unconsumed > 0
    /\ Unconsumed < 128
    /\ returned # <<>>

TimeSpent(m) == m.number_samples * 1000 >= MAX_TIME_SECONDS * m.sample_rate_hz
PeaksSpent(m) == TotalPeaks(m) >= MAX_PEAKS

\* C8: while get_next_signature runs, the next chunk is consumed exactly when
\* at least 128 unconsumed samples remain and the time budget or the peak
\* budget is unspent; every returned signature had spent both budgets or was
\* returned with fewer than 128 unconsumed samples left.
C8_BudgetStopRule ==
    /\ [](\A r \in Returned :
            \/ r.value.number_samples * 1000 >= MAX_TIME_SECONDS * r.value.sample_rate_hz
               /\ TotalPeaks(r.value) >= MAX_PEAKS
            \/ r.unconsumed < 128)
    /\ [][pc = "loop" =>
            /\ (samples_processed' = samples_processed + 128)
                    <=> (Unconsumed >= 128 /\ ~(TimeSpent(Current) /\ PeaksSpent(Current)))
            /\ (TimeSpent(Current) /\ PeaksSpent(Current)) => samples_processed' = samples_processed
            /\ samples_processed' \in {samples_processed, samples_processed + 128}]_vars

\* a signature was returned with both budgets spent and input left, after
\* strides on which one budget was already spent and the other was not
C8_Witness ==
    \E r \in Returned :
        /\ r.unconsumed >= 128
        /\ r.value.number_samples * 1000 > MAX_TIME_SECONDS * r.value.sample_rate_hz
        /\ TotalPeaks(r.value) >= MAX_PEAKS
        /\ r.strides > 1

\* C9: after get_next_signature has returned a signature, the generator holds
\* a fresh signature (16000 Hz, no samples, no bands) and three rings in
\* their initial state, samples_processed is the value the call reached, and
\* every signature returned so far is still what it was when it was returned.
C9_SnapshotAndReset ==
    /\ \A i \in DOMAIN returned : signatures[returned[i].signature] = returned[i].value
    /\ (pc = "idle" /\ outcome.kind = "signature") =>
            /\ Current.sample_rate_hz = 16000
            /\ Current.number_samples = 0
            /\ DOMAIN Current.frequency_band_to_sound_peaks = {}
            /\ next_signature # outcome.value
            /\ SamplesRingInitial(ring_buffer_of_samples)
            /\ FramesRingInitial(fft_outputs)
            /\ FramesRingInitial(spread_ffts_output)
            /\ samples_processed = returned[Len(returned)].processed
            /\ samples_processed = returned[Len(returned)].entry + 128 * returned[Len(returned)].strides

\* a signature with a peak was returned, and a later call filled and
\* returned another one
C9_Witness ==
    /\ pc = "idle"
    /\ outcome.kind = "signature"
    /\ Len(returned) >= 2
    /\ TotalPeaks(returned[1].value) > 0
    /\ returned[2].value.number_samples > 0
    /\ feeds = 2

RECURSIVE SumSamples(_)
\* the number_samples of the returned signatures, added up
SumSamples(records) ==
    IF records = <<>> THEN 0
    ELSE Head(records).value.number_samples + SumSamples(Tail(records))

\* C10: next_signature.number_samples is the number of samples passed to
\* process_input since the last reset; with the cursor started at 0, a returned
\* signature's number_samples is 128 times the strides of its call and the
\* increase of samples_processed over that call, and between calls the
\* number_samples of the returned signatures add up to samples_processed.
C10_SampleAccounting ==
    /\ Current.number_samples = call.passed
    /\ \A r \in Returned :
        /\ r.value.number_samples = 128 * r.strides
        /\ r.value.number_samples = r.processed - r.entry
    /\ pc = "idle" => SumSamples(returned) = samples_processed

\* two signatures of different lengths were returned and a part of a chunk
\* is left unconsumed
C10_Witness ==
    /\ pc = "idle"
    /\ Len(returned) = 2
    /\ returned[1].value.number_samples > returned[2].value.number_samples
    /\ returned[2].value.number_samples > 0
    /\ Unconsumed > 0

(***************************************************************************)
(* A generator fed once with more than 256 chunks, so that the two rings   *)
(* of frames wrap within one signature.                                    *)
(***************************************************************************)
LongLead == 140

\* silence with four loud chunks in it, 60 chunks apart or so: three on the
\* edges of the stored frequency range, and one that is tested after the
\* rings have wrapped
LongFeed(sample) ==
    Extend(Samples(0, (LongLead - 60) * 128) \o Chunk(7000) \o Samples(0, 59 * 128)
                \o Chunk(5000) \o Samples(0, 59 * 128) \o Chunk(6000) \o Samples(0, 54 * 128),
           Extend(Chunk(sample), Samples(0, TailChunks * 128)))

\* loud chunks at the very start, where the frames three strides back were
\* never appended, and again once the rings have wrapped
EarlyFeed ==
    Extend(Chunk(7000) \o Chunk(8000) \o Samples(0, 253 * 128) \o Chunk(7000) \o Chunk(8000),
           Samples(0, TailChunks * 128))

LongFeeds == {LongFeed(sample) : sample \in {0, 1000, 3000, 9000}} \cup {EarlyFeed}

\* feed_input(samples), once
feed_long_input ==
    /\ pc = "idle"
    /\ feeds < 1
    /\ \E s16le_mono_samples \in LongFeeds :
        input_pending_processing' = Extend(input_pending_processing, s16le_mono_samples)
    /\ feeds' = feeds + 1
    /\ UNCHANGED <<samples_processed, ring_buffer_of_samples, fft_outputs, spread_ffts_output,
                   MAX_TIME_SECONDS, MAX_PEAKS, signatures, next_signature, pc, call, outcome,
                   returned, codecVars>>

LongNext ==
    \/ feed_long_input
    \/ get_next_signature
    \/ ProcessChunk
    \/ ReturnSignature

LongSpec == GenInit /\ [][LongNext]_vars

\* C11: between strides and after every reset the two rings of frames have
\* the same num_written and the same position, each has received one frame
\* per stride of the call, and each position is num_written modulo 256.
C11_RingLockstep ==
    /\ fft_outputs.num_written = spread_ffts_output.num_written
    /\ fft_outputs.position = spread_ffts_output.position
    /\ fft_outputs.num_written = call.strides
    /\ fft_outputs.position = fft_outputs.num_written % 256
    /\ spread_ffts_output.position = spread_ffts_output.num_written % 256
    /\ pc = "idle" => fft_outputs.num_written = 0

\* the rings have wrapped within a signature
C11_Witness ==
    /\ pc = "loop"
    /\ spread_ffts_output.num_written > 256
    /\ spread_ffts_output.position > 0

\* the signature objects of the generator: those returned and the one held
Held == {signatures[i] : i \in DOMAIN signatures}

\* C12: in every signature returned or held by the generator each band's
\* peaks are in non-decreasing fft_pass_number order, and between calls
\* encode_to_binary does not raise its ordering error on any of them.
C12_Monotonic ==
    \A m \in Held :
        /\ SortedByPass(m)
        /\ pc = "idle" =>
            encode_to_binary(m).error # "frequency_peak.fft_pass_number < fft_pass_number"

\* a returned signature holds, in one band, a peak of a later pass after a
\* peak of an earlier pass, and is encoded
C12_Witness ==
    \E r \in Returned : \E b \in BandsOf(r.value) :
        /\ Len(Peaks(r.value, b)) >= 2
        /\ Peaks(r.value, b)[1].fft_pass_number < Peaks(r.value, b)[2].fft_pass_number
        /\ encode_to_binary(r.value).status = "ok"

\* C13: every peak stored in a signature of the generator has a stored bin
\* between 2048 and 45056, that is a frequency bin * 16000 / 2 / 1024 / 64 of
\* at least 250 Hz and at most 5500 Hz, and no call has raised an error.
C13_BandCoverage ==
    /\ outcome.kind # "raised"
    /\ \A m \in Held : \A b \in BandsOf(m) : \A i \in 1..Len(Peaks(m, b)) :
        /\ Peaks(m, b)[i].corrected_peak_frequency_bin * 125 >= 250 * 1024
        /\ Peaks(m, b)[i].corrected_peak_frequency_bin * 125 <= 5500 * 1024

\* the stored bins of the peaks of m that carry the pass number pass
BinsOfPass(m, pass) ==
    {Peaks(m, b)[i].corrected_peak_frequency_bin :
        <<b, i>> \in {<<c, j>> \in BandsOf(m) \X (1..4) :
                        /\ j <= Len(Peaks(m, c))
                        /\ Peaks(m, c)[j].fft_pass_number = pass}}

\* a signature was returned that kept the peaks at exactly 250 Hz and 5500 Hz
\* of one frame, kept of the frame with peaks near both edges the one that is
\* inside only, and kept nothing of the frame with peaks just outside
C13_Witness ==
    \E r \in Returned :
        /\ outcome.kind = "signature"
        /\ BinsOfPass(r.value, LongLead) = {2048, 45056}
        /\ BinsOfPass(r.value, LongLead - 60) = {2066}
        /\ BinsOfPass(r.value, LongLead + 60) = {}

(***************************************************************************)
(* Layout of the bytes encode_to_binary returns                            *)
(***************************************************************************)
\* the little-endian word at an offset of bs
WordAt(bs, offset) == FromBytesLE(SubSeq(bs, offset + 1, offset + 4))

RECURSIVE EntriesWellLaid(_, _, _, _)
\* from offset pos on, bs is made of the entries of the bands left, one after
\* the other: a tag above the tag before, the length of the band's stream,
\* the stream, and the zero bytes up to the next multiple of 4, three at most
EntriesWellLaid(bs, pos, bands, previous_tag) ==
    IF bands = <<>> THEN pos = Len(bs)
    ELSE LET stream == enc.peaks_bufs[Head(bands)]
             stop == pos + 8 + Len(stream)
             padding == (4 - (Len(stream) % 4)) % 4
         IN  /\ pos % 4 = 0
             /\ stop + padding <= Len(bs)
             /\ WordAt(bs, pos) = BandTagBase + Head(bands)
             /\ WordAt(bs, pos) > previous_tag
             /\ WordAt(bs, pos + 4) = Len(stream)
             /\ SubSeq(bs, pos + 9, stop) = stream
             /\ padding \in 0..3
             /\ \A i \in (stop + 1)..(stop + padding) : bs[i] = 0
             /\ (stop + padding) % 4 = 0
             /\ EntriesWellLaid(bs, stop + padding, Tail(bands), WordAt(bs, pos))

\* C14: the bytes encode_to_binary returns have a length that is a multiple
\* of 4; size_minus_header and the second word of the preamble are that
\* length minus 48; after the preamble come the bands' entries in ascending
\* tag order, each starting and ending on a multiple of 4, with 0 to 3 zero
\* bytes after its stream.
C14_Layout ==
    enc.status = "ok" =>
        /\ Len(enc.bytes) % 4 = 0
        /\ WordAt(enc.bytes, 8) = Len(enc.bytes) - HEADER_SIZE
        /\ WordAt(enc.bytes, HEADER_SIZE) = FirstChunkTag
        /\ WordAt(enc.bytes, HEADER_SIZE + 4) = Len(enc.bytes) - HEADER_SIZE
        /\ EntriesWellLaid(enc.bytes, HEADER_SIZE + 8, SortedKeys(BandsOf(msg)), 0)

\* two bands were encoded, the first with a stream of 5 bytes, which takes
\* three bytes of padding, and the second with one of 10 bytes, which takes two
C14_Witness ==
    /\ enc.status = "ok"
    /\ BandsOf(msg) = {-1, 3}
    /\ Len(enc.peaks_bufs[-1]) = 5
    /\ Len(enc.peaks_bufs[3]) = 10
    /\ Len(enc.bytes) = HEADER_SIZE + 8 + 16 + 20

(***************************************************************************)
(* 2048 samples of silence on a new generator                              *)
(***************************************************************************)
\* a generator with the budgets of __init__ was fed 2048 zero samples and
\* nothing else
SilenceFed ==
    /\ feeds = 1
    /\ input_pending_processing = Samples(0, 2048)
    /\ MAX_TIME_SECONDS = 3100
    /\ MAX_PEAKS = 255

\* C15: a new generator fed 2048 zero samples returns, at the first call of
\* get_next_signature, a signature and not None; the signature has
\* number_samples = 2048 and no peak in any band, and encode_to_binary gives
\* 56 bytes for it: the header of 48 and the first chunk of 8, no band entry.
C15_EmptySignature ==
    /\ [][(SilenceFed /\ returned = <<>>) => outcome'.kind \in {outcome.kind, "signature"}]_vars
    /\ [](SilenceFed /\ returned # <<>> =>
            LET m == returned[1].value
            IN  /\ returned[1].entry = 0
                /\ m.number_samples = 2048
                /\ BandsOf(m) = {}
                /\ encode_to_binary(m).status = "ok"
                /\ Len(encode_to_binary(m).bytes) = HEADER_SIZE + 8)

\* the first call on the silence has returned its signature after 16 strides
C15_Witness ==
    /\ SilenceFed
    /\ Len(returned) = 1
    /\ returned[1].strides = 16
    /\ outcome.kind = "signature"
    /\ Len(encode_to_binary(returned[1].value).bytes) = 56

(***************************************************************************)
(* Pass numbers                                                            *)
(***************************************************************************)
\* input_pending_processing[index]
SampleAt(samples, index) == SamplesSlice(samples, index, index + 1)[1]

\* the peaks that after holds and before did not: each list grows at its end
Emitted(before, after) ==
    UNION {{Peaks(after, b)[i] :
                i \in ((IF b \in BandsOf(before) THEN Len(Peaks(before, b)) ELSE 0) + 1)
                          ..Len(Peaks(after, b))} : b \in BandsOf(after)}

\* C17: a stride emits no peak while spread_ffts_output.num_written, after
\* its append, is below 46; a peak it emits has fft_pass_number =
\* num_written - 46 >= 0, and that number is the index, from the start of the
\* signature, of the stride whose frame was tested: the slot 46 back from the
\* position of fft_outputs holds the spectrum of that stride's chunk, loud at
\* the peak's bin, also after the position has wrapped.
C17_PassNumbering ==
    [][(pc = "loop" /\ next_signature' = next_signature) =>
        LET num_written == spread_ffts_output'.num_written
            tested == Item(fft_outputs', (fft_outputs'.position - 46) % fft_outputs'.buffer_size)
        IN  /\ num_written < 46 => Emitted(signatures[next_signature], signatures'[next_signature]) = {}
            /\ \A peak \in Emitted(signatures[next_signature], signatures'[next_signature]) :
                /\ peak.fft_pass_number = num_written - 46
                /\ peak.fft_pass_number >= 0
                /\ peak.fft_pass_number = call.strides - 45
                /\ tested = ModelSpectrum(SampleAt(input_pending_processing,
                                                   call.entry + 128 * peak.fft_pass_number + 127))
                /\ At(tested, (peak.corrected_peak_frequency_bin + 32) \div 64) >= PeakThreshold
    ]_vars

\* a peak of the chunk LongLead + 115 was emitted by the stride that made
\* num_written 46 more, with the ring position past its wrap
C17_Witness ==
    /\ pc = "loop"
    /\ spread_ffts_output.num_written = LongLead + 115 + 46
    /\ spread_ffts_output.position < 46
    /\ \E b \in BandsOf(Current) : \E i \in 1..Len(Peaks(Current, b)) :
            Peaks(Current, b)[i].fft_pass_number = LongLead + 115

(***************************************************************************)
(* The window of samples                                                   *)
(***************************************************************************)
\* the samples the current call has consumed, the 2048 newest at most, after
\* the zeros that fill the window while fewer were consumed
RecentSamples ==
    LET oldest == Max(call.entry, samples_processed - 2048)
        recent == SamplesSlice(input_pending_processing, oldest, samples_processed)
    IN  Repeat(0, 2048 - Len(recent)) \o recent

\* C18: in every stride the excerpt that do_fft transforms is the 2048 newest
\* samples consumed in the current signature, oldest first, after zeros while
\* fewer than 2048 were consumed; the ring of samples keeps 2048 slots, its
\* position is a multiple of 128 and equals num_written modulo 2048, and a
\* batch of 128 written at the position ends within the ring.
C18_SampleWindow ==
    /\ Len(ring_buffer_of_samples.buf) = 2048
    /\ ring_buffer_of_samples.position % 128 = 0
    /\ ring_buffer_of_samples.position = ring_buffer_of_samples.num_written % 2048
    /\ ring_buffer_of_samples.position + 128 <= 2048
    /\ pc = "loop" =>
        /\ ring_buffer_of_samples.num_written = samples_processed - call.entry
        /\ excerpt_from_ring_buffer(ring_buffer_of_samples) = RecentSamples

\* 17 strides into a call, the ring has wrapped: the first chunk is gone from
\* the window, which begins with the second chunk and ends with silence
C18_Witness ==
    /\ pc = "loop"
    /\ call.strides = 17
    /\ ring_buffer_of_samples.position = 128
    /\ SampleAt(input_pending_processing, call.entry) = 3000
    /\ excerpt_from_ring_buffer(ring_buffer_of_samples)[1] = 2000
    /\ excerpt_from_ring_buffer(ring_buffer_of_samples)[2048] = 0

\* the sample of 1 that ends a feed of 100 is at index 99 of the window once
\* 16 strides have gone by
C18_TickInWindow ==
    /\ pc = "loop"
    /\ call.strides = 16
    /\ call.entry = 0
    /\ excerpt_from_ring_buffer(ring_buffer_of_samples)[100] = 1
    /\ excerpt_from_ring_buffer(ring_buffer_of_samples)[99] = 0

(***************************************************************************)
(* Spreading over the bins                                                 *)
(***************************************************************************)
\* the frame the last stride appended to a ring
LastWritten(ring) == Item(ring, ring.position - 1)

\* C19: the list S that a stride appends to spread_ffts_output is made from
\* the frame P that the same stride appended to fft_outputs: S[k] is the
\* greatest of P[k], P[k+1], P[k+2] for k in 0..1022, S[1023] = P[1023] and
\* S[1024] = P[1024]; a loud bin reaches two bins down and no further. This
\* holds as well when the ring position has wrapped to 0.
C19_FrequencySpread ==
    (pc = "loop" /\ call.strides >= 1) =>
        LET P == LastWritten(fft_outputs)
            S == LastWritten(spread_ffts_output)
        IN  /\ \A k \in 0..1022 :
                    At(S, k) = Max(Max(At(P, k), At(P, k + 1)), At(P, k + 2))
            /\ At(S, 1023) = At(P, 1023)
            /\ At(S, 1024) = At(P, 1024)

\* the stride that wrapped both positions to 0 spread a frame with loud bins
C19_Witness ==
    /\ pc = "loop"
    /\ fft_outputs.position = 0
    /\ fft_outputs.num_written = 256
    /\ \E k \in 10..1014 :
            /\ At(LastWritten(fft_outputs), k) >= PeakThreshold
            /\ At(LastWritten(spread_ffts_output), k - 2) = At(LastWritten(fft_outputs), k)
            /\ At(LastWritten(spread_ffts_output), k - 3) = PowerFloor

(***************************************************************************)
(* Spreading over the former frames                                        *)
(***************************************************************************)
\* the slot n back from position p of a ring of 256, as an index of buf
SlotBack(p, n) == ((p - n) % 256) + 1

\* what C20 says of one bin: the values of S, of F1, F3, F6 before (old1,
\* old3, old6) and after (new1, new3, new6)
SpreadInTime(S, old1, old3, old6, new1, new3, new6) ==
    /\ new1 = Max(old1, S)
    /\ new3 = Max(old3, new1)
    /\ new6 = Max(old6, new3)
    /\ new6 >= new3 /\ new3 >= new1 /\ new1 >= S
    /\ new1 >= old1 /\ new3 >= old3 /\ new6 >= old6

\* C20: with p the position of spread_ffts_output before the append and F1,
\* F3, F6 the slots p-1, p-3, p-6 modulo 256, a stride leaves, for every bin
\* k, F1[k] = max(old F1[k], S[k]), F3[k] = max(old F3[k], F1[k]) and
\* F6[k] = max(old F6[k], F3[k]), so that F6[k] >= F3[k] >= F1[k] >= S[k] and
\* none of them has decreased; slot p holds S, the spread of the frame the
\* stride appended to fft_outputs; every other slot is as it was, and
\* fft_outputs is as do_fft left it. The bins are those where one of the
\* seven lists differs from its common value, and the common values for all
\* the other bins.
C20_TimeSpread ==
    [][(pc = "loop" /\ pc' = "loop" /\ spread_ffts_output' # spread_ffts_output) =>
        LET old == spread_ffts_output
            new == spread_ffts_output'
            p == old.position
            S == new.buf[p + 1]
            old1 == old.buf[SlotBack(p, 1)]
            old3 == old.buf[SlotBack(p, 3)]
            old6 == old.buf[SlotBack(p, 6)]
            new1 == new.buf[SlotBack(p, 1)]
            new3 == new.buf[SlotBack(p, 3)]
            new6 == new.buf[SlotBack(p, 6)]
            bins == UNION {DOMAIN frame.over : frame \in {S, old1, old3, old6, new1, new3, new6}}
            chunk == SamplesSlice(input_pending_processing, samples_processed, samples_processed + 128)
        IN  /\ bins \subseteq 0..(NumBins - 1)
            /\ \A k \in bins :
                    SpreadInTime(At(S, k), At(old1, k), At(old3, k), At(old6, k),
                                 At(new1, k), At(new3, k), At(new6, k))
            /\ SpreadInTime(S.base, old1.base, old3.base, old6.base,
                            new1.base, new3.base, new6.base)
            /\ S = FrequencySpread(LastWritten(fft_outputs'))
            /\ \A i \in (1..256) \ {SlotBack(p, 0), SlotBack(p, 1), SlotBack(p, 3), SlotBack(p, 6)} :
                    new.buf[i] = old.buf[i]
            /\ Len(new.buf) = 256
            /\ fft_outputs' = do_fft(Self, chunk).fft_outputs
    ]_vars

\* the stride after the one that wrapped the position to 0 with a loud frame:
\* its own frame is silent at bin k, the frame before is loud there, and the
\* frames three and six back have been raised to it
C20_Witness ==
    /\ pc = "loop"
    /\ spread_ffts_output.num_written = 257
    /\ \E k \in 10..1014 :
            /\ At(spread_ffts_output.buf[SlotBack(spread_ffts_output.position, 1)], k) = PowerFloor
            /\ At(spread_ffts_output.buf[SlotBack(spread_ffts_output.position, 2)], k) >= PeakThreshold
            /\ At(spread_ffts_output.buf[SlotBack(spread_ffts_output.position, 4)], k) >= PeakThreshold
            /\ At(spread_ffts_output.buf[SlotBack(spread_ffts_output.position, 7)], k) >= PeakThreshold


(***************************************************************************)
(* The input across calls                                                  *)
(***************************************************************************)
\* C21: feed_input appends the samples to the end of input_pending_processing
\* and leaves samples_processed, the signature being built and the three
\* rings as they are; nothing else changes the input; the cursor moves by
\* chunks of exactly 128 samples, taken at the cursor in the order fed, and
\* never back; what is left below 128 stays for later: 100 samples fed give
\* None, 100 more give a signature with number_samples = 128 and 72 samples
\* left.
C21_InputBuffering ==
    /\ [][/\ feeds' # feeds =>
                /\ SamplesLen(input_pending_processing') > SamplesLen(input_pending_processing)
                /\ SamplesSlice(input_pending_processing', 0, SamplesLen(input_pending_processing))
                        = SamplesSlice(input_pending_processing, 0, SamplesLen(input_pending_processing))
                /\ UNCHANGED <<samples_processed, signatures, next_signature,
                               ring_buffer_of_samples, fft_outputs, spread_ffts_output>>
          /\ feeds' = feeds => input_pending_processing' = input_pending_processing
          /\ samples_processed' \in {samples_processed, samples_processed + 128}
          /\ samples_processed' # samples_processed =>
                LET chunk == SamplesSlice(input_pending_processing, samples_processed,
                                          samples_processed + 128)
                IN  /\ Len(chunk) = 128
                    /\ SubSeq(excerpt_from_ring_buffer(ring_buffer_of_samples'), 1921, 2048) = chunk
                    /\ signatures'[next_signature].number_samples
                            = signatures[next_signature].number_samples + 128
          /\ (SamplesLen(input_pending_processing) = 100 /\ pc = "idle") =>
                /\ pc' = "idle"
                /\ outcome' # outcome => outcome'.kind = "None"
         ]_vars
    /\ []((SamplesLen(input_pending_processing) = 200 /\ returned # <<>>) =>
            /\ returned[1].entry = 0
            /\ returned[1].value.number_samples = 128
            /\ returned[1].unconsumed = 72
            /\ samples_processed = 128)

\* 100 samples were fed twice, and the call after the second feed returned a
\* signature of one chunk, with 72 samples left for later
C21_Witness ==
    /\ feeds = 2
    /\ SamplesLen(input_pending_processing) = 200
    /\ Len(returned) = 1
    /\ returned[1].value.number_samples = 128
    /\ SamplesLen(input_pending_processing) - samples_processed = 72
    /\ outcome.kind = "signature"

(***************************************************************************)
(* Iterating the generator: __next__ is called again and again, and each   *)
(* call runs its loop to the end.  The loop body is enabled exactly while  *)
(* the call is in its loop and the loop condition holds, so the weak       *)
(* fairness of ProcessChunk is written out with that enabling condition.   *)
(***************************************************************************)
LoopBodyEnabled == pc = "loop" /\ LoopCondition

FairGenSpec ==
    /\ GenInit
    /\ [][GenNext]_vars
    /\ WF_vars(get_next_signature)
    /\ WF_vars(ReturnSignature)
    /\ ([]<>(~LoopBodyEnabled) \/ []<><<ProcessChunk>>_vars)

\* C23: with the cursor starting at 0 and MAX_PEAKS >= 1, whatever
\* MAX_TIME_SECONDS is, a call that returns a signature has consumed at least
\* one chunk: number_samples >= 128 and samples_processed is larger than it
\* was; so, once nothing more is fed, the iteration comes to the call that
\* finds less than a chunk left and ends with StopIteration.
C23_Progress ==
    /\ [](\A r \in Returned : r.value.number_samples >= 128 /\ r.processed > r.entry)
    /\ <>[](pc = "idle" /\ outcome.raised = "StopIteration" /\ Unconsumed < 128)

\* with no time budget at all and a budget of one peak, two signatures were
\* returned and the iteration has ended
C23_Witness ==
    /\ MAX_TIME_SECONDS = 0
    /\ MAX_PEAKS = 1
    /\ Len(returned) = 2
    /\ returned[2].value.number_samples >= 128
    /\ outcome.raised = "StopIteration"

(***************************************************************************)
(* Peaks and the frame they are taken from                                 *)
(***************************************************************************)
\* the frame do_peak_recognition tests, and the spread frame it tests against
TestedFrame(ffts) == Item(ffts, (ffts.position - 46) % ffts.buffer_size)
GateFrame(spread) == Item(spread, (spread.position - 49) % spread.buffer_size)

\* frame g is at least frame f in every bin
Covers(g, f) ==
    /\ g.base >= f.base
    /\ \A k \in DOMAIN f.over \cup DOMAIN g.over : At(g, k) >= At(f, k)

\* C24: a stride that emits a peak emits it for a bin k of the tested frame
\* P (46 back) with P[k] > P[k-1] and P[k] > P[k+1]; and whenever the
\* recognition runs, the spread frame 49 back is at least the frequency
\* spread of P in every bin, in the first strides of a signature, where that
\* slot was never appended, and after the rings have wrapped.
C24_StrictLocalMaxima ==
    [][(pc = "loop" /\ next_signature' = next_signature /\ call'.strides # call.strides) =>
        LET P == TestedFrame(fft_outputs')
        IN  /\ spread_ffts_output'.num_written >= 46 =>
                    Covers(GateFrame(spread_ffts_output'), FrequencySpread(P))
            /\ \A peak \in Emitted(signatures[next_signature], signatures'[next_signature]) :
                    \E k \in 10..1014 :
                        /\ peak.corrected_peak_frequency_bin >= 64 * k - 32
                        /\ peak.corrected_peak_frequency_bin <= 64 * k + 32
                        /\ At(P, k) >= PeakThreshold
                        /\ At(P, k) > At(P, k - 1)
                        /\ At(P, k) > At(P, k + 1)
    ]_vars

\* the stride that tests the first frame of a signature has emitted a peak
\* for a bin whose upper neighbour is above the floor, against a spread frame
\* in a slot that no stride has appended to
C24_Witness ==
    /\ pc = "loop"
    /\ spread_ffts_output.num_written = 46
    /\ \E b \in BandsOf(Current) : \E i \in 1..Len(Peaks(Current, b)) :
        LET k == (Peaks(Current, b)[i].corrected_peak_frequency_bin + 32) \div 64
        IN  /\ Peaks(Current, b)[i].fft_pass_number = 0
            /\ At(TestedFrame(fft_outputs), k + 1) > PowerFloor
            /\ At(TestedFrame(fft_outputs), k) > At(TestedFrame(fft_outputs), k + 1)

\* the same after the rings have wrapped
C24_WrappedReached ==
    /\ pc = "loop"
    /\ spread_ffts_output.num_written = 255 + 46
    /\ \E b \in BandsOf(Current) : \E i \in 1..Len(Peaks(Current, b)) :
        LET k == (Peaks(Current, b)[i].corrected_peak_frequency_bin + 32) \div 64
        IN  /\ Peaks(Current, b)[i].fft_pass_number = 255
            /\ At(TestedFrame(fft_outputs), k + 1) > PowerFloor

(***************************************************************************)
(* The band of a peak and the bin stored with it                           *)
(***************************************************************************)
\* FrequencyPeak.get_frequency_hz at 16000 Hz is bin * 125 / 1024: the stored
\* bin lies at or above lo Hz, and below hi Hz
AtLeastHz(bin, lo) == bin * 125 >= lo * 1024
BelowHz(bin, hi) == bin * 125 < hi * 1024

\* the stored bins of the peaks under band b in the signatures of the generator
StoredBins(b) ==
    UNION {{Peaks(m, b)[i].corrected_peak_frequency_bin : i \in 1..Len(Peaks(m, b))} :
                m \in {h \in Held : b \in BandsOf(h)}}

\* C25 as stated: the frequency of the stored bin of every peak lies in the
\* interval of its band, [250, 520), [520, 1450), [1450, 3500) or [3500, 5500].
C25_BandConsistencyAsClaimed ==
    /\ \A bin \in StoredBins(0) : AtLeastHz(bin, 250) /\ BelowHz(bin, 520)
    /\ \A bin \in StoredBins(1) : AtLeastHz(bin, 520) /\ BelowHz(bin, 1450)
    /\ \A bin \in StoredBins(2) : AtLeastHz(bin, 1450) /\ BelowHz(bin, 3500)
    /\ \A bin \in StoredBins(3) : AtLeastHz(bin, 3500) /\ bin * 125 <= 5500 * 1024

\* C25: the frequency of the stored bin of every peak is below the upper end
\* of the interval of its band (at most 5500 Hz in band 3) and less than one
\* unit of the stored bin, 16000 / 2 / 1024 / 64 Hz, below its lower end: the
\* band is chosen from the bin before int() cuts its fraction off.
C25_BandConsistency ==
    /\ \A bin \in StoredBins(0) : AtLeastHz(bin, 250) /\ BelowHz(bin, 520)
    /\ \A bin \in StoredBins(1) : (bin + 1) * 125 > 520 * 1024 /\ BelowHz(bin, 1450)
    /\ \A bin \in StoredBins(2) : (bin + 1) * 125 > 1450 * 1024 /\ BelowHz(bin, 3500)
    /\ \A bin \in StoredBins(3) : AtLeastHz(bin, 3500) /\ bin * 125 <= 5500 * 1024

\* a signature holds under band 1 a peak stored with bin 4259, 519.897 Hz,
\* and under band 2 a peak stored with bin 11878, 1449.951 Hz
C25_Witness ==
    /\ 4259 \in StoredBins(1)
    /\ 11878 \in StoredBins(2)
    /\ \E r \in Returned : 4259 \in {Peaks(r.value, b)[i].corrected_peak_frequency_bin :
                                        <<b, i>> \in {<<c, j>> \in BandsOf(r.value) \X (1..4) :
                                                        j <= Len(Peaks(r.value, c))}}


(***************************************************************************)
(* Shazam.create_signature_generator                                       *)
(*                                                                         *)
(* The audio is the AudioSegment that normalize_audio_data returns: 16-bit *)
(* mono samples at 16 kHz, so that duration_seconds is the number of       *)
(* samples over 16000.                                                     *)
(***************************************************************************)
NORMALIZED_FRAME_RATE == 16000

\* Shazam.max_time_seconds, in milliseconds
max_time_seconds == 8000

\* audio.duration_seconds > 12 * 3
LongerThan36Seconds(audio) == SamplesLen(audio) > 12 * 3 * NORMALIZED_FRAME_RATE

\* NORMALIZED_FRAME_RATE * (int(audio.duration_seconds / 16) - 6)
SkippedSamples(audio) ==
    NORMALIZED_FRAME_RATE * ((SamplesLen(audio) \div (16 * NORMALIZED_FRAME_RATE)) - 6)

\* silent recordings of 1 second, of 37 seconds and of 112 seconds
ModelAudios == {Samples(0, seconds * NORMALIZED_FRAME_RATE) : seconds \in {1, 37, 112}}

\* no Shazam method has been called
ApiInit == NoGenerator /\ NoCodec

\* lines 82-92: a generator is made, fed with the samples of the audio and
\* given the time budget of the class; its cursor is moved when the audio is
\* longer than 36 seconds
create_signature_generator ==
    /\ pc = "absent"
    /\ \E audio \in ModelAudios :
        /\ input_pending_processing' = Extend(<<>>, audio)
        /\ samples_processed' = IF LongerThan36Seconds(audio) THEN 0 + SkippedSamples(audio) ELSE 0
    /\ ring_buffer_of_samples' = RingBuffer(2048, 0)
    /\ spread_ffts_output' = RingBuffer(256, ConstantFrame(0))
    /\ fft_outputs' = RingBuffer(256, ConstantFrame(0))
    /\ MAX_TIME_SECONDS' = max_time_seconds
    /\ MAX_PEAKS' = 255
    /\ signatures' = Allocate(<<>>, FreshSignature).store
    /\ next_signature' = Allocate(<<>>, FreshSignature).id
    /\ pc' = "idle"
    /\ call' = NoCall
    /\ outcome' = NoResult
    /\ returned' = <<>>
    /\ feeds' = 1
    /\ UNCHANGED codecVars

ApiNext ==
    \/ create_signature_generator
    \/ feed_input
    \/ get_next_signature
    \/ ProcessChunk
    \/ ReturnSignature

ApiSpec == ApiInit /\ [][ApiNext]_vars

\* C22: in every state that create_signature_generator, feed_input and
\* get_next_signature lead to, 0 <= samples_processed <=
\* len(input_pending_processing): the skip for audio longer than 36 seconds
\* is never negative, and every chunk handed to process_input is the 128
\* samples at the cursor.
C22_CursorBounds ==
    pc # "absent" =>
        /\ 0 <= samples_processed
        /\ samples_processed <= SamplesLen(input_pending_processing)
        /\ (pc = "loop" /\ LoopCondition) =>
                Len(SamplesSlice(input_pending_processing, samples_processed,
                                 samples_processed + 128)) = 128


(***************************************************************************)
(* The data: URI form of a signature.                                      *)
(*                                                                         *)
(* A Python str is a sequence of one-character strings.  b64encode and     *)
(* b64decode are the standard library's: three bytes make four characters  *)
(* of the alphabet, "=" fills the last group, and the decoder, which does  *)
(* not validate, skips what is not in the alphabet and raises              *)
(* binascii.Error when the data characters do not fill their last group.   *)
(***************************************************************************)
\* 'data:audio/vnd.shazam.sig;base64,'
DATA_URI_PREFIX ==
    <<"d", "a", "t", "a", ":", "a", "u", "d", "i", "o", "/", "v", "n", "d", ".",
      "s", "h", "a", "z", "a", "m", ".", "s", "i", "g", ";", "b", "a", "s", "e", "6", "4", ",">>

Base64Alphabet ==
    <<"A", "B", "C", "D", "E", "F", "G", "H", "I", "J", "K", "L", "M", "N", "O", "P",
      "Q", "R", "S", "T", "U", "V", "W", "X", "Y", "Z", "a", "b", "c", "d", "e", "f",
      "g", "h", "i", "j", "k", "l", "m", "n", "o", "p", "q", "r", "s", "t", "u", "v",
      "w", "x", "y", "z", "0", "1", "2", "3", "4", "5", "6", "7", "8", "9", "+", "/">>

\* the character of a 6-bit value, and the 6-bit value of a character (64 for
\* a character outside the alphabet)
Base64Char(v) == Base64Alphabet[v + 1]
Base64Value(c) ==
    IF \E i \in 1..64 : Base64Alphabet[i] = c
    THEN (CHOOSE i \in 1..64 : Base64Alphabet[i] = c) - 1
    ELSE 64

RECURSIVE b64encode(_)
\* b64encode(bs).decode('ascii')
b64encode(bs) ==
    IF Len(bs) = 0 THEN <<>>
    ELSE IF Len(bs) = 1
    THEN <<Base64Char(bs[1] \div 4), Base64Char((bs[1] % 4) * 16), "=", "=">>
    ELSE IF Len(bs) = 2
    THEN <<Base64Char(bs[1] \div 4), Base64Char((bs[1] % 4) * 16 + (bs[2] \div 16)),
           Base64Char((bs[2] % 16) * 4), "=">>
    ELSE <<Base64Char(bs[1] \div 4), Base64Char((bs[1] % 4) * 16 + (bs[2] \div 16)),
           Base64Char((bs[2] % 16) * 4 + (bs[3] \div 64)), Base64Char(bs[3] % 64)>>
         \o b64encode(SubSeq(bs, 4, Len(bs)))

\* one turn of the decoder's loop, on character i of s: quad_pos data
\* characters of the current group were read, leftchar holds the bits not yet
\* written, pads counts the "=" seen since the last data character, and done
\* says that the padding closed the data
DecodeChar(st, s, i) ==
    IF i > Len(s) \/ st.done THEN st
    ELSE IF s[i] = "="
    THEN IF st.quad_pos >= 2 /\ st.quad_pos + st.pads + 1 >= 4
         THEN [st EXCEPT !.done = TRUE]
         ELSE [st EXCEPT !.pads = IF st.quad_pos >= 2 THEN @ + 1 ELSE @]
    ELSE IF Base64Value(s[i]) = 64 THEN st
    ELSE LET this_ch == Base64Value(s[i])
         IN  CASE st.quad_pos = 0 ->
                    [st EXCEPT !.quad_pos = 1, !.leftchar = this_ch, !.pads = 0]
               [] st.quad_pos = 1 ->
                    [st EXCEPT !.quad_pos = 2, !.leftchar = this_ch % 16, !.pads = 0,
                               !.out = Append(@, st.leftchar * 4 + (this_ch \div 16))]
               [] st.quad_pos = 2 ->
                    [st EXCEPT !.quad_pos = 3, !.leftchar = this_ch % 4, !.pads = 0,
                               !.out = Append(@, st.leftchar * 16 + (this_ch \div 4))]
               [] OTHER ->
                    [st EXCEPT !.quad_pos = 0, !.leftchar = 0, !.pads = 0,
                               !.out = Append(@, st.leftchar * 64 + this_ch)]

RECURSIVE DecodeChars(_, _, _)
\* the loop from character i on, eight characters at a time
DecodeChars(st, s, i) ==
    IF i > Len(s) \/ st.done THEN st
    ELSE LET st1 == DecodeChar(st, s, i)
             st2 == DecodeChar(st1, s, i + 1)
             st3 == DecodeChar(st2, s, i + 2)
             st4 == DecodeChar(st3, s, i + 3)
             st5 == DecodeChar(st4, s, i + 4)
             st6 == DecodeChar(st5, s, i + 5)
             st7 == DecodeChar(st6, s, i + 6)
             st8 == DecodeChar(st7, s, i + 7)
         IN  DecodeChars(st8, s, i + 8)

\* b64decode(s): binascii.Error when the data characters stop inside a group
b64decode(s) ==
    LET st == DecodeChars([quad_pos |-> 0, leftchar |-> 0, pads |-> 0, out |-> <<>>,
                           done |-> FALSE], s, 1)
    IN  IF st.done \/ st.quad_pos = 0
        THEN [status |-> "ok", error |-> "", bytes |-> st.out]
        ELSE [status |-> "error", error |-> "binascii.Error", bytes |-> <<>>]

\* prefix occurs somewhere in s
contains(s, prefix) ==
    \E i \in 0..(Len(s) - Len(prefix)) : SubSeq(s, i + 1, i + Len(prefix)) = prefix

\* s.startswith(prefix)
startswith(s, prefix) ==
    Len(s) >= Len(prefix) /\ SubSeq(s, 1, Len(prefix)) = prefix

\* s.replace(old, '', 1): s without the first occurrence of old
replace_first(s, old) ==
    LET starts == {i \in 0..(Len(s) - Len(old)) : SubSeq(s, i + 1, i + Len(old)) = old}
    IN  IF starts = {} THEN s
        ELSE LET first == CHOOSE i \in starts : \A j \in starts : i <= j
             IN  SubSeq(s, 1, first) \o SubSeq(s, first + Len(old) + 1, Len(s))

\* m.encode_to_uri(): the exception of encode_to_binary passes through
encode_to_uri(m) ==
    LET binary == encode_to_binary(m)
    IN  IF binary.status # "ok"
        THEN [status |-> "error", error |-> binary.error, uri |-> <<>>]
        ELSE [status |-> "ok", error |-> "", uri |-> DATA_URI_PREFIX \o b64encode(binary.bytes)]

\* DecodedMessage.decode_from_uri(uri); attempted lists the decoders that were
\* called before the function returned or raised
decode_from_uri(uri) ==
    IF ~startswith(uri, DATA_URI_PREFIX)
    THEN [status |-> "error", error |-> "Not a valid audio/vnd.shazam.sig data: URI",
          attempted |-> <<>>, result |-> DecodedMessage(0, 0, EmptyMap)]
    ELSE LET raw == b64decode(replace_first(uri, DATA_URI_PREFIX))
         IN  IF raw.status # "ok"
             THEN [status |-> "error", error |-> raw.error,
                   attempted |-> <<"b64decode">>, result |-> DecodedMessage(0, 0, EmptyMap)]
             ELSE LET decoded == decode_from_binary(raw.bytes)
                  IN  [status |-> decoded.status, error |-> decoded.error,
                       attempted |-> <<"b64decode", "decode_from_binary">>,
                       result |-> decoded.result]

(***************************************************************************)
(* A caller encodes a message to a URI and hands a string to the decoder:  *)
(* the URI as returned, or a string made from it that does not start with  *)
(* the prefix.                                                             *)
(***************************************************************************)
\* 'data:audio/x-wav;base64,'
WavPrefix ==
    <<"d", "a", "t", "a", ":", "a", "u", "d", "i", "o", "/", "x", "-", "w", "a", "v",
      ";", "b", "a", "s", "e", "6", "4", ",">>

\* messages at 8 and 16 kHz over two bands, with peaks at either rate
UriMessages ==
    {m \in ModelMessages :
        /\ m.sample_rate_hz \in {8000, 16000}
        /\ m.number_samples = 48000
        /\ DOMAIN m.frequency_band_to_sound_peaks \subseteq {1, 3}}

\* strings made from a URI that do not start with the prefix: another media
\* type, the payload alone, the prefix in upper case at its first letter, the
\* prefix without its comma, the URI after a space, the URI cut inside the
\* prefix, the empty string
ForeignUris(uri) ==
    LET payload == SubSeq(uri, Len(DATA_URI_PREFIX) + 1, Len(uri))
    IN  {WavPrefix \o payload,
         payload,
         <<"D">> \o Tail(uri),
         SubSeq(DATA_URI_PREFIX, 1, Len(DATA_URI_PREFIX) - 1) \o payload,
         <<" ">> \o uri,
         SubSeq(uri, 1, 20),
         <<>>}

NoUri == [origin |-> "none", uri |-> <<>>]

UriInit ==
    /\ msg \in UriMessages
    /\ enc = NotCalled
    /\ data = NoUri
    /\ dec = NotCalled
    /\ NoGenerator

\* m.encode_to_uri()
EncodeToUri ==
    /\ enc.status = "none"
    /\ enc' = encode_to_uri(msg)
    /\ UNCHANGED <<msg, data, dec, genVars>>

\* the URI goes to the decoder as it was returned
HandOverUri ==
    /\ enc.status = "ok"
    /\ data.origin = "none"
    /\ data' = [origin |-> "encoded", uri |-> enc.uri]
    /\ UNCHANGED <<msg, enc, dec, genVars>>

\* another string goes to the decoder
HandOverForeign ==
    /\ enc.status = "ok"
    /\ data.origin = "none"
    /\ \E uri \in ForeignUris(enc.uri) : data' = [origin |-> "foreign", uri |-> uri]
    /\ UNCHANGED <<msg, enc, dec, genVars>>

\* DecodedMessage.decode_from_uri(uri)
DecodeFromUri ==
    /\ data.origin # "none"
    /\ dec.status = "none"
    /\ dec' = decode_from_uri(data.uri)
    /\ UNCHANGED <<msg, enc, data, genVars>>

UriNext == EncodeToUri \/ HandOverUri \/ HandOverForeign \/ DecodeFromUri

UriSpec == UriInit /\ [][UriNext]_vars

\* the first characters of s are those of the prefix, one by one
BeginsWithPrefix(s) ==
    /\ Len(s) >= 33
    /\ \A i \in 1..33 : s[i] = DATA_URI_PREFIX[i]

\* C16 as the spec words it: a string that does not start with the prefix is
\* refused before any decoding, and every URI that encode_to_uri returns
\* starts with the prefix and decodes to the message that was encoded, the
\* sample_rate_hz of each peak included.
C16_UriArmoringAsClaimed ==
    /\ (dec.status # "none" /\ ~BeginsWithPrefix(data.uri)) =>
            /\ dec.status = "error"
            /\ dec.error = "Not a valid audio/vnd.shazam.sig data: URI"
            /\ dec.attempted = <<>>
    /\ enc.status = "ok" => BeginsWithPrefix(enc.uri)
    /\ (data.origin = "encoded" /\ dec.status # "none") => DecodedEquals(msg)

\* C16, amended: decode_from_uri raises ValueError for every string that does
\* not start with the prefix, with neither b64decode nor decode_from_binary
\* called; every URI that encode_to_uri returns starts with the prefix, and
\* it decodes to the message that was encoded when the peaks of that message
\* carry the message's own sample_rate_hz.
C16_UriArmoring ==
    /\ (dec.status # "none" /\ ~BeginsWithPrefix(data.uri)) =>
            /\ dec.status = "error"
            /\ dec.error = "Not a valid audio/vnd.shazam.sig data: URI"
            /\ dec.attempted = <<>>
    /\ enc.status = "ok" => BeginsWithPrefix(enc.uri)
    /\ (data.origin = "encoded" /\ dec.status # "none" /\ PeakRatesMatch(msg)) =>
            /\ dec.attempted = <<"b64decode", "decode_from_binary">>
            /\ DecodedEquals(msg)

\* a string that starts with 'data:audio/x-wav;base64,' and goes on with the
\* payload of an encoded message was refused with no decoder called
C16_Witness ==
    /\ data.origin = "foreign"
    /\ startswith(data.uri, WavPrefix)
    /\ b64decode(SubSeq(data.uri, Len(WavPrefix) + 1, Len(data.uri))).bytes = encode_to_binary(msg).bytes
    /\ dec.status = "error"
    /\ dec.attempted = <<>>

\* the URI of a message with an escaped peak went through decode_from_uri and
\* came back as the message
C16_RoundTripReached ==
    /\ data.origin = "encoded"
    /\ PeakRatesMatch(msg)
    /\ \E b \in BandsOf(msg) : \E i \in 1..Len(Peaks(msg, b)) : Gap(Peaks(msg, b), i) >= 255
    /\ Len(data.uri) > 33 + 96
    /\ DecodedEquals(msg)

=============================================================================
